---- MODULE Spec2Model ----
(***************************************************************************)
(* gig-map figure builder: the two-phase (read, plot) protocol of          *)
(* FigureBuilder over the Elements of GigMapFigure, and the shared axes    *)
(* ('gene', 'genome') whose order the Elements set and fix.                *)
(*                                                                         *)
(* From the code: FigureBuilder (__init__, validate_elements, parse_args,  *)
(* add_param, read_data, make_plots) and FigureElement.__init__ of         *)
(* app/figure_builder.py; the read_f and plot_f bodies of the Elements,    *)
(* read_lines and order_by_linkage of app/gig_map_elements.py; the chunked *)
(* write of bin/aggregate_results.py; the heatmap callback of app.py.      *)
(*                                                                         *)
(* Used by that code and defined nowhere in it, and so taken from the      *)
(* specification: the Axis behind fb.axis(name), and make_nj_tree.         *)
(*                                                                         *)
(* The two files do not fit together.  GigMapFigure() and                  *)
(* FigureBuilder(...) raise before a Builder exists: the Elements call     *)
(* FigureElement.__init__ without a read_f, and validate_elements loops    *)
(* over self.elements before it is bound.  read_data calls read_f with     *)
(* the namespace as keyword arguments alone and make_plots calls plot_f    *)
(* with five arguments, while every read_f and plot_f of the Elements      *)
(* takes the Builder as 'fb'.  FigureElement.__init__ assigns no           *)
(* 'enabled' and the class has no disable().  No run of the program gets   *)
(* past the constructor.                                                   *)
(*                                                                         *)
(* The specifications are therefore of two sorts.                          *)
(*                                                                         *)
(* Code applied to its arguments, one call at a time, with nothing put in  *)
(* the place of a statement that raises:                                   *)
(*   SpecConstruct   the constructor calls;                                *)
(*   SpecParseArgs   parse_args with add_param over spelled option strings;*)
(*   SpecLoops       the loops of read_data and make_plots over steps that *)
(*                   are any functions taking what the loops pass;         *)
(*   SpecSteps, SpecScenario, SpecAnnot                                    *)
(*                   the read_f and plot_f bodies of the Elements, called  *)
(*                   with their arguments under the names of their         *)
(*                   parameters on an object that offers axis(), the       *)
(*                   Element carrying what FigureElement.__init__ assigns; *)
(*   SpecResolver    order_by_linkage;                                     *)
(*   SpecAxis        one Axis under any calls;                             *)
(*   SpecChunks, SpecChunksFair, SpecViewer                                *)
(*                   the scripts beside the Builder.                       *)
(*                                                                         *)
(* Runs carried past the statements that raise (Spec, SpecPairing,         *)
(* SpecParse): the action Builder_constructed stands where the constructor *)
(* raised and leaves a Builder holding its arguments and Elements; with    *)
(* passes_fb the steps are entered although the calls of read_data and     *)
(* make_plots as written are refused.  No call of the code produces these  *)
(* runs.  They serve to look at the code behind a statement that raises,   *)
(* and only departures of that code from the specification are drawn from  *)
(* them; nothing is confirmed on them.                                     *)
(***************************************************************************)
EXTENDS Integers, Sequences, FiniteSets, TLC

VARIABLES
    passes_fb, \* in a run carried past the constructor: whether the steps
               \* are entered (TRUE) or called as read_data and make_plots
               \* call them (FALSE); FALSE everywhere else
    ctor,      \* the arguments of the call that constructs the Builder
    args,      \* FigureBuilder.args: the global arguments, as declared
    elements,  \* FigureBuilder.elements
    argv,      \* the command line: per namespace, which options were given
    env,       \* the files the paths on the command line may lead to
    phase,     \* the phase of the Builder run; "NEW" before construction
    params,    \* FigureBuilder.params
    data,      \* the keys of FigureBuilder.data
    enabled,   \* element id -> FALSE once the Element has run disable()
    axes,      \* axis name -> the Axis behind fb.axis(name)
    attrs,     \* element id -> the attributes the Element object has
    readLog,   \* the read steps invoked so far, in order
    plotLog,   \* the plot steps invoked so far, in order
    orderLog,  \* the set and set_order calls made on the axes, in order; the
               \* order offered is kept for an Element that fixes the axis
    linkageLog,  \* the calls of order_by_linkage made so far, in order
    agg,       \* the script run beside the Builder: aggregate_results' chunked
               \* write, or the viewer's heatmap callback
    error      \* "none", or the error that aborted the run

vars == << passes_fb, ctor, args, elements, argv, env, phase, params, data, enabled, axes, attrs,
           readLog, plotLog, orderLog, linkageLog, agg, error >>

----------------------------------------------------------------------------
(* Bounds *)

NumGenomes == 2
NumGenes == 2

(* Program constants *)

DefaultMaxLabelLen == 60

GenomeIds == 1..NumGenomes
GeneIds == 1..NumGenes
AxisNames == {"genome", "gene"}
IdsOf(axis) == IF axis = "genome" THEN GenomeIds ELSE GeneIds

None == "None"
Given == "given"

----------------------------------------------------------------------------
(* Sequences *)

Range(s) == { s[i] : i \in DOMAIN s }

IsDupFree(s) == \A i, j \in DOMAIN s : s[i] = s[j] => i = j

SeqsOfLen(S, n) == [1..n -> S]

DupFreeSeqs(S) ==
    UNION { { s \in SeqsOfLen(S, n) : IsDupFree(s) } : n \in 0..Cardinality(S) }

Perms(S) == { s \in SeqsOfLen(S, Cardinality(S)) : Range(s) = S }

Prefix(s, n) == SubSeq(s, 1, IF n < Len(s) THEN n ELSE Len(s))

IsPrefixOf(s, t) == Len(s) <= Len(t) /\ s = SubSeq(t, 1, Len(s))

Reversed(s) == [ i \in DOMAIN s |-> s[Len(s) + 1 - i] ]

EmptyFn == [x \in {} |-> <<>>]

----------------------------------------------------------------------------
(* Text: an ID and a label are strings, modelled as tuples of characters. *)

\* Characters are their ASCII codes; the digit of an ID is its number.
\* The raw ID of a genome or gene: "GCF_" and a digit
IdText(id) == << 71, 67, 70, 95, id >>

Escherichia == << 69, 115, 99, 104, 101, 114, 105, 99, 104, 105, 97 >>

\* the label an annotation table gives an ID in its label column:
\* "Escherichia" and a digit
LabelText(id) == Escherichia \o << id >>

\* variant: the label is stored as read
Truncate_skipped(s, max_label_len) == s

\* s[:max_label_len]; a negative length counts from the end of s
Truncate(s, max_label_len) ==
    IF max_label_len >= 0 THEN Prefix(s, max_label_len)
    ELSE Prefix(s, IF Len(s) + max_label_len > 0
                   THEN Len(s) + max_label_len ELSE 0)

----------------------------------------------------------------------------
(* The Axis behind fb.axis(name).  Its class is not part of the code at    *)
(* hand; the operators below follow the contract of the specification.    *)
(* A series is a sequence of << key, value >> pairs.                       *)

\* fb.axis(name) on first access: an empty placeholder that does not exist yet
NewAxis == [ exists |-> FALSE, order |-> <<>>, is_fixed |-> FALSE,
             label_of |-> EmptyFn ]

\* Axis.member_set(): every ID the axis has been told of
member_set(a) == DOMAIN a.label_of \cup Range(a.order)

SeriesKeys(series) == [ i \in DOMAIN series |-> series[i][1] ]

\* the value of the last row of the series with key k (last writer wins)
SeriesValue(series, k) ==
    LET last == CHOOSE i \in DOMAIN series :
                    /\ series[i][1] = k
                    /\ \A j \in DOMAIN series : series[j][1] = k => j <= i
    IN  series[last][2]

RECURSIVE AppendNew(_, _, _)
\* order, followed by the keys that are neither known nor already appended
AppendNew(order, known, keys) ==
    IF keys = <<>> THEN order
    ELSE IF Head(keys) \in known \cup Range(order)
         THEN AppendNew(order, known, Tail(keys))
         ELSE AppendNew(Append(order, Head(keys)), known, Tail(keys))

\* variant: the order of an existing axis becomes the keys of the series
AxisSet_replacing(a, series) ==
    LET keys == SeriesKeys(series)
        given == [ k \in Range(keys) |-> SeriesValue(series, k) ]
    IN  [ a EXCEPT !.exists = TRUE,
                   !.order = AppendNew(<<>>, {}, keys),
                   !.label_of = [ k \in DOMAIN a.label_of \cup DOMAIN given |->
                                    IF k \in DOMAIN given THEN given[k]
                                    ELSE a.label_of[k] ] ]

\* Axis.set(series): an axis that does not exist yet takes its order from
\* the key sequence of the series, as it is, and its labels from the values;
\* an axis that exists is extended by the members it did not know, its
\* order kept, and the labels of the series overwrite those it had
AxisSet(a, series) ==
    LET keys == SeriesKeys(series)
        given == [ k \in Range(keys) |-> SeriesValue(series, k) ]
    IN  IF ~a.exists
        THEN [ a EXCEPT !.exists = TRUE,
                        !.order = keys,
                        !.label_of = given ]
        ELSE [ a EXCEPT
                 !.order = AppendNew(a.order, member_set(a), keys),
                 !.label_of = [ k \in DOMAIN a.label_of \cup DOMAIN given |->
                                  IF k \in DOMAIN given THEN given[k]
                                  ELSE a.label_of[k] ] ]

\* Axis.set_order(sequence) is a logged no-op on a fixed axis
AxisSetOrderRejected(a, sequence) == a.is_fixed

\* the sequence names an ID more than once
Repeats(sequence) == Cardinality(Range(sequence)) # Len(sequence)

\* variant: set_order takes any sequence without repeats
AxisSetOrderError_members_unchecked(a, sequence) ==
    /\ ~a.is_fixed
    /\ Repeats(sequence)

\* variant: an axis that does not exist yet takes any order without repeats
AxisSetOrderError_new_axis_exempt(a, sequence) ==
    /\ ~a.is_fixed
    /\ \/ a.exists /\ ~(Range(sequence) \subseteq member_set(a))
       \/ Repeats(sequence)

\* Axis.set_order(sequence): the sequence is to be a permutation or a subset
\* of the known members; an ID that is no known member, or that comes
\* twice, is an error.  An axis that does not exist yet knows no member.
AxisSetOrderError(a, sequence) ==
    /\ ~a.is_fixed
    /\ \/ ~(Range(sequence) \subseteq member_set(a))
       \/ Repeats(sequence)

\* variant: an accepted order is final
AxisSetOrder_fixing(a, sequence) ==
    IF a.is_fixed \/ AxisSetOrderError(a, sequence) THEN a
    ELSE [ a EXCEPT !.order = sequence, !.is_fixed = TRUE ]

\* Axis.set_order(sequence): the axis after the call
AxisSetOrder(a, sequence) ==
    IF a.is_fixed \/ AxisSetOrderError(a, sequence) THEN a
    ELSE [ a EXCEPT !.order = sequence ]

\* Axis.is_fixed = True
AxisFix(a) == [ a EXCEPT !.is_fixed = TRUE ]

\* Axis.length()
AxisLength(a) == Len(a.order)

\* Axis.labels(): the labels in the current order, the raw ID where none was given
AxisLabels(a) ==
    [ i \in DOMAIN a.order |->
        IF a.order[i] \in DOMAIN a.label_of THEN a.label_of[a.order[i]]
        ELSE IdText(a.order[i]) ]

----------------------------------------------------------------------------
(* The Elements of GigMapFigure, in declaration order. *)

Elements == <<
    [ id |-> "genomeAnnot", kind |-> "AxisAnnot", axis_label |-> "genome" ],
    [ id |-> "geneAnnot", kind |-> "AxisAnnot", axis_label |-> "gene" ],
    [ id |-> "genomeTree", kind |-> "GenomeTree" ],
    [ id |-> "genomeHeatmap", kind |-> "HeatmapElement",
      x_axis |-> "gene", y_axis |-> "genome" ],
    [ id |-> "genomeColorbar", kind |-> "HeatmapColorbarElement",
      heatmap_id |-> "genomeHeatmap" ] >>

ElementIds == { Elements[i].id : i \in DOMAIN Elements }

ElementIdSeq == [ i \in DOMAIN Elements |-> Elements[i].id ]

Namespaces == {"global"} \cup ElementIds

\* AxisAnnot's arguments: csv, index-col (default f"{axis_label}_id"),
\* label-col, max-label-len (default 60) and order, under the keys they are
\* declared with
AxisAnnot_args(axis_label) ==
    [ k \in {"csv", "index-col", "label-col", "max-label-len", "order"} |->
        CASE k = "index-col" ->
               IF axis_label = "genome" THEN "genome_id" ELSE "gene_id"
          [] k = "max-label-len" -> DefaultMaxLabelLen
          [] OTHER -> None ]

\* what parse_args leaves in self.params[ns] for a command line without
\* options: the default of every argument of the namespace, an Element's
\* under the declared key, GigMapFigure's own under argparse's keyword
ArgDefaults(ns) ==
    CASE ns = "global" ->
            [ output_prefix |-> "gigmap-render", output_folder |-> "./" ]
      [] ns = "genomeAnnot" -> AxisAnnot_args("genome")
      [] ns = "geneAnnot" -> AxisAnnot_args("gene")
      [] ns = "genomeTree" -> [ distmat |-> None ]
      [] ns = "genomeHeatmap" ->
            [ csv |-> None, gene_col |-> "sseqid", genome_col |-> "genome",
              val_col |-> "pident", colorscale |-> "blues" ]
      [] OTHER -> EmptyFn

\* In a run carried past the call of a step: the name of the parameter that
\* a declared key is meant for.  read_data passes the declared key itself.
Keyword(k) ==
    CASE k = "index-col" -> "index_col"
      [] k = "label-col" -> "label_col"
      [] k = "max-label-len" -> "max_label_len"
      [] OTHER -> k

\* a namespace under the names of the parameters
Keywords(ps) ==
    [ kw \in { Keyword(k) : k \in DOMAIN ps } |->
        ps[CHOOSE k \in DOMAIN ps : Keyword(k) = kw] ]

----------------------------------------------------------------------------
(* The state the read and plot steps work on, as one record. *)

Cur == [ axes |-> axes, enabled |-> enabled, attrs |-> attrs,
         orderLog |-> orderLog, linkageLog |-> linkageLog, error |-> error ]

\* an exception leaves the step; nothing catches it
Raise(s, err) == [ s EXCEPT !.error = err ]

\* self.disable(): neither FigureElement nor a class of the Elements
\* defines the method, so the lookup raises on an Element that carries
\* what FigureElement.__init__ assigns
Disable(s, id) ==
    IF "disable" \in s.attrs[id]
    THEN [ s EXCEPT !.enabled[id] = FALSE ]
    ELSE Raise(s, "AttributeError: object has no attribute 'disable'")

\* self.<name> = ... for each name
SetAttrs(s, id, names) == [ s EXCEPT !.attrs[id] = @ \cup names ]

\* fb.axis(axis).set_order(sequence), called by Element id
OfferOrder(s, id, axis, sequence, fixing) ==
    LET a == s.axes[axis]
        entry == [ elem |-> id, axis |-> axis, op |-> "set_order",
                   offered |-> IF fixing THEN sequence ELSE <<>>,
                   fixing |-> fixing,
                   rejected |-> AxisSetOrderRejected(a, sequence) ]
        logged == [ s EXCEPT !.orderLog = Append(@, entry) ]
    IN  IF AxisSetOrderError(a, sequence)
        THEN Raise(logged, "set_order: unknown member")
        ELSE [ logged EXCEPT !.axes[axis] = AxisSetOrder(a, sequence) ]

\* fb.axis(axis).set(series), called by Element id
OfferSeries(s, id, axis, series, fixing) ==
    LET entry == [ elem |-> id, axis |-> axis, op |-> "set",
                   offered |-> IF fixing THEN SeriesKeys(series) ELSE <<>>,
                   fixing |-> fixing,
                   rejected |-> FALSE ]
    IN  [ s EXCEPT !.axes[axis] = AxisSet(@, series),
                   !.orderLog = Append(@, entry) ]

----------------------------------------------------------------------------
(* AxisAnnot.read_f *)

\* the annotation table as the series handed to Axis.set: one row per ID of
\* rows, labelled by label_col (or by the ID itself), cut to max_label_len
AxisAnnot_series(p, rows) ==
    [ i \in DOMAIN rows |->
        << rows[i],
           Truncate(IF p.label_col = None THEN IdText(rows[i])
                    ELSE LabelText(rows[i]),
                    p.max_label_len) >> ]

\* fb.axis(self.axis_label).set(...)
AxisAnnot_set(s, e, p, rows) ==
    OfferSeries(s, e.id, e.axis_label, AxisAnnot_series(p, rows), p.order # None)

\* variant: the annotation never fixes the axis
AxisAnnot_fix_omitted(s, e, p) == s

\* if order is not None: fb.axis(self.axis_label).is_fixed = True
AxisAnnot_fix(s, e, p) ==
    IF p.order # None
    THEN [ s EXCEPT !.axes[e.axis_label] = AxisFix(@) ]
    ELSE s

\* variant: the rows named in the order file are kept, in table order
AxisAnnot_rows_filtered(p, table, lines) ==
    IF p.order # None
    THEN SelectSeq(table.index, LAMBDA id : id \in Range(lines))
    ELSE table.index

\* df = df.reindex(index=index_order): the rows of the table in the order
\* of the lines of the order file
AxisAnnot_rows(p, table, lines) ==
    IF p.order # None THEN lines ELSE table.index

\* DataFrame.reindex raises on an index that holds a label twice, unless
\* the labels asked for are the index as it is
AxisAnnot_reindex_fails(table, lines) ==
    Repeats(table.index) /\ lines # table.index

\* table: the file behind csv; listing: the file behind order.  The label
\* column is looked for once index_col has been made the index
AxisAnnot_read_f(s, e, p, table, listing) ==
    IF p.csv = None THEN Disable(s, e.id)
    ELSE IF ~table.found THEN Raise(s, "AssertionError: Cannot find file")
    ELSE IF p.index_col \notin table.columns
         THEN Raise(s, "AssertionError: Column not found in header")
    ELSE IF /\ p.label_col # None
            /\ p.label_col \notin table.columns \ { p.index_col }
         THEN Raise(s, "AssertionError: Column not found in header")
    ELSE IF p.order # None /\ ~listing.found
         THEN Raise(s, "AssertionError: File not found")
    ELSE IF p.order # None /\ listing.lines = <<>>
         THEN Raise(s, "AssertionError: No lines found")
    ELSE IF /\ p.order # None
            /\ ~(Range(listing.lines) \subseteq Range(table.index))
         THEN Raise(s, "AssertionError: Value not found in column")
    ELSE IF p.order # None /\ AxisAnnot_reindex_fails(table, listing.lines)
         THEN Raise(s, "ValueError: cannot reindex on an axis with duplicate labels")
    ELSE LET rows == AxisAnnot_rows(p, table, listing.lines)
         IN  AxisAnnot_fix(AxisAnnot_set(s, e, p, rows), e, p)

----------------------------------------------------------------------------
(* GenomeTree.read_f *)

\* variant: the tree is built over the whole distance matrix
GenomeTree_genomes_of_matrix(a, dm) == dm

\* the genomes the tree is built over: those of the distance matrix, cut to
\* the members of the 'genome' axis when that axis exists
GenomeTree_genomes(a, dm) ==
    IF a.exists THEN dm \cap member_set(a) ELSE dm

\* make_nj_tree is not part of the code at hand.  Per the specification it
\* returns some order of the genomes it was given, and fails when fewer than
\* two are left
TreeOutcomes(genomes) ==
    IF Cardinality(genomes) < 2
    THEN { [ ok |-> FALSE, genome_order |-> <<>> ] }
    ELSE { [ ok |-> TRUE, genome_order |-> o ] : o \in Perms(genomes) }

\* variant: the tree writes its order straight into the axis
GenomeTree_set_order_direct(s, e, genome_order) ==
    [ OfferOrder(s, e.id, "genome", genome_order, TRUE)
        EXCEPT !.axes["genome"].order = genome_order,
               !.error = s.error ]

\* variant: the tree takes an order the axis turns down for a failure
GenomeTree_set_order_fatal(s, e, genome_order) ==
    IF AxisSetOrderRejected(s.axes["genome"], genome_order)
    THEN Raise(OfferOrder(s, e.id, "genome", genome_order, TRUE),
               "set_order: the axis is fixed")
    ELSE OfferOrder(s, e.id, "genome", genome_order, TRUE)

\* fb.axis("genome").set_order(self.node_positions.genome_order)
GenomeTree_set_order(s, e, genome_order) ==
    OfferOrder(s, e.id, "genome", genome_order, TRUE)

\* variant: the tree leaves the axis unfixed
GenomeTree_fix_omitted(s) == s

\* variant: the tree clears the flag
GenomeTree_fix_cleared(s) == [ s EXCEPT !.axes["genome"].is_fixed = FALSE ]

\* fb.axis("genome").is_fixed = True
GenomeTree_fix(s) == [ s EXCEPT !.axes["genome"] = AxisFix(@) ]

\* dm = dm.reindex(index=genomes, columns=genomes), done when the axis
\* exists, raises on a matrix that holds a genome twice
GenomeTree_reindex_fails(a, dm) == a.exists /\ dm.dup

\* dm: the file behind distmat; tree: what make_nj_tree returned
GenomeTree_read_f(s, e, p, dm, tree) ==
    IF p.distmat = None THEN Disable(s, e.id)
    ELSE IF ~dm.found THEN Raise(s, "FileNotFoundError")
    ELSE IF GenomeTree_reindex_fails(s.axes["genome"], dm)
         THEN Raise(s, "ValueError: cannot reindex on an axis with duplicate labels")
    ELSE IF ~tree.ok THEN Raise(s, "make_nj_tree failed")
    ELSE LET built == SetAttrs(s, e.id, {"node_positions"})
             offered == GenomeTree_set_order(built, e, tree.genome_order)
         IN  IF offered.error # "none" THEN offered
             ELSE GenomeTree_fix(offered)

----------------------------------------------------------------------------
(* HeatmapElement.read_f and order_by_linkage *)

\* A matrix is its row index, its columns, and its values: per row ID, per
\* column ID, a number.  The long table of a heatmap is the set of its
\* cells, << genome, gene >>, each with the value 1; the pivot fills the
\* cells the file does not have with fill_value, 0, and leaves the index and
\* the columns sorted.
SortedSeq(ids) ==
    CHOOSE o \in Perms(ids) : \A i, j \in DOMAIN o : i < j => o[i] < o[j]

CellId(cell, axis) == IF axis = "genome" THEN cell[1] ELSE cell[2]

Matrix(index, columns, cells, y_axis, x_axis) ==
    [ index |-> index, columns |-> columns,
      values |-> [ r \in Range(index) |-> [ c \in Range(columns) |->
                     IF \E cell \in cells : /\ CellId(cell, y_axis) = r
                                           /\ CellId(cell, x_axis) = c
                     THEN 1 ELSE 0 ] ] ]

\* df_long.pivot(index=y_col, columns=x_col, values=val_col).fillna(..)
HeatmapElement_df_wide(e, f) ==
    Matrix(SortedSeq({ CellId(cell, e.y_axis) : cell \in f.cells }),
           SortedSeq({ CellId(cell, e.x_axis) : cell \in f.cells }),
           f.cells, e.y_axis, e.x_axis)

\* df.T
Transpose(df) ==
    [ index |-> df.columns, columns |-> df.index,
      values |-> [ c \in Range(df.columns) |-> [ r \in Range(df.index) |->
                     df.values[r][c] ] ] ]

\* the number of columns in which two rows differ
Hamming(u, v) == Cardinality({ c \in DOMAIN u : u[c] # v[c] })

\* the euclidean distance of two rows of zeros and ones that differ in h
\* columns, in thousandths, rounded down
Root(h) ==
    CHOOSE r \in 0..(1000 * h) :
        /\ r * r <= 1000 * 1000 * h
        /\ (r + 1) * (r + 1) > 1000 * 1000 * h

RootTable == [ h \in 0..(NumGenomes + NumGenes + 1) |-> Root(h) ]

RowDistance(df, i, j) ==
    RootTable[Hamming(df.values[df.index[i]], df.values[df.index[j]])]

RECURSIVE PathCost(_, _, _)
\* the sum of the distances of the rows next to each other, from place k on
PathCost(df, leaves, k) ==
    IF k >= Len(leaves) THEN 0
    ELSE RowDistance(df, leaves[k], leaves[k + 1]) + PathCost(df, leaves, k + 1)

LexLeq(p, q) ==
    \/ p = q
    \/ \E i \in DOMAIN p : p[i] < q[i] /\ \A j \in 1..(i - 1) : p[j] = q[j]

\* hierarchy.leaves_list(hierarchy.linkage(df, ..., optimal_ordering=True)),
\* as positions from 1: the order of the leaves of the dendrogram for which
\* the distances of neighbouring rows sum to the least.  For up to three
\* rows the dendrogram admits every order that attains the least sum; of
\* those the first in positions is taken.
leaves_list(df) ==
    LET all == Perms(1..Len(df.index))
        best == { p \in all : \A q \in all :
                      PathCost(df, p, 1) <= PathCost(df, q, 1) }
    IN  CHOOSE p \in best : \A q \in best : LexLeq(p, q)

\* variant: a matrix too small to cluster is returned in index order
order_by_linkage_lenient(df) ==
    [ ok |-> TRUE,
      order |-> IF Len(df.index) < 2 THEN df.index
                ELSE [ i \in DOMAIN df.index |-> df.index[leaves_list(df)[i]] ] ]

\* variant: rows that the 'genome' axis holds come back in the order of the
\* axis
order_by_linkage_by_axis(df) ==
    IF Len(df.index) < 2 THEN [ ok |-> FALSE, order |-> <<>> ]
    ELSE IF axes["genome"].exists
            /\ Range(df.index) \subseteq Range(axes["genome"].order)
         THEN [ ok |-> TRUE,
                order |-> AppendNew(<<>>, {},
                             SelectSeq(axes["genome"].order,
                                       LAMBDA id : id \in Range(df.index))) ]
    ELSE [ ok |-> TRUE,
           order |-> [ i \in DOMAIN df.index |-> df.index[leaves_list(df)[i]] ] ]

\* order_by_linkage(df): [df.index.values[i] for i in leaves_list(L)];
\* hierarchy.linkage raises for fewer than two rows
order_by_linkage(df) ==
    IF Len(df.index) < 2 THEN [ ok |-> FALSE, order |-> <<>> ]
    ELSE [ ok |-> TRUE,
           order |-> [ i \in DOMAIN df.index |-> df.index[leaves_list(df)[i]] ] ]

\* order_by_linkage(df), called by Element id for an axis
CallLinkage(s, id, axis, df) ==
    [ s EXCEPT !.linkageLog =
        Append(@, [ elem |-> id, axis |-> axis, axes |-> s.axes, df |-> df,
                    method |-> "ward", metric |-> "euclidean",
                    result |-> order_by_linkage(df) ]) ]

\* variant: the heatmap clusters and offers whatever the flag says
HeatmapElement_order_axis_unchecked(s, e, axis, df) ==
    IF ~order_by_linkage(df).ok
    THEN Raise(CallLinkage(s, e.id, axis, df),
               "ValueError: linkage of fewer than two rows")
    ELSE OfferOrder(CallLinkage(s, e.id, axis, df), e.id, axis,
                    order_by_linkage(df).order, FALSE)

\* if not fb.axis(axis).is_fixed: fb.axis(axis).set_order(order_by_linkage(..))
HeatmapElement_order_axis(s, e, axis, df) ==
    IF ~s.axes[axis].is_fixed
    THEN IF ~order_by_linkage(df).ok
         THEN Raise(CallLinkage(s, e.id, axis, df),
                    "ValueError: linkage of fewer than two rows")
         ELSE OfferOrder(CallLinkage(s, e.id, axis, df), e.id, axis,
                         order_by_linkage(df).order, FALSE)
    ELSE s

\* if csv is None: self.disable()
HeatmapElement_no_csv(s, e) == Disable(s, e.id)

\* kwargs[f"{self.x_axis}_col"], kwargs[f"{self.y_axis}_col"] and
\* kwargs["val_col"]: the columns the file must have
HeatmapElement_columns(e, p) ==
    { p[IF axis = "gene" THEN "gene_col" ELSE "genome_col"] :
        axis \in { e.x_axis, e.y_axis } } \cup { p.val_col }

\* DataFrame.pivot raises when the long table has two rows for one cell
HeatmapElement_pivot_fails(f) == f.dup

\* f: the file behind csv
HeatmapElement_read_f(s, e, p, f) ==
    IF p.csv = None THEN HeatmapElement_no_csv(s, e)
    ELSE IF ~f.found THEN Raise(s, "FileNotFoundError")
    ELSE IF ~(HeatmapElement_columns(e, p) \subseteq f.columns)
         THEN Raise(SetAttrs(s, e.id, {"colorscale"}),
                    "AssertionError: csv does not contain column")
    ELSE IF HeatmapElement_pivot_fails(f)
         THEN Raise(SetAttrs(s, e.id, {"colorscale", "min_val", "max_val"}),
                    "ValueError: Index contains duplicate entries, cannot reshape")
    ELSE LET loaded == SetAttrs(s, e.id,
                          {"colorscale", "min_val", "max_val", "df_wide"})
             wide == HeatmapElement_df_wide(e, f)
             x == HeatmapElement_order_axis(loaded, e, e.x_axis, Transpose(wide))
         IN  IF x.error # "none" THEN x
             ELSE HeatmapElement_order_axis(x, e, e.y_axis, wide)

----------------------------------------------------------------------------
(* HeatmapColorbarElement.read_f *)

\* element_dict.get(self.heatmap_id) is not None
HasElement(id) == \E i \in DOMAIN elements : elements[i].id = id

\* if element_dict[self.heatmap_id].enabled is False: self.disable()
HeatmapColorbarElement_follow(s, e) ==
    IF s.enabled[e.heatmap_id] = FALSE THEN Disable(s, e.id) ELSE s

\* The branch for a heatmap_id that names no Element calls disable() and
\* falls through to element_dict[self.heatmap_id], which raises; with the
\* heatmap there, .enabled is looked up on an Element that was never
\* assigned it.
HeatmapColorbarElement_read_f(s, e) ==
    LET absent == ~HasElement(e.heatmap_id)
        s1 == IF absent THEN Disable(s, e.id) ELSE s
    IN  IF s1.error # "none" THEN s1
        ELSE IF absent THEN Raise(s1, "KeyError")
        ELSE IF "enabled" \notin s1.attrs[e.heatmap_id]
             THEN Raise(s1, "AttributeError: object has no attribute 'enabled'")
        ELSE LET followed == HeatmapColorbarElement_follow(s1, e)
             IN  IF followed.error # "none" THEN followed
                 ELSE SetAttrs(followed, e.id, {"heatmap_elem"})

----------------------------------------------------------------------------
(* The plot steps.  They read the axes; none of them writes to one. *)

AxisOrders(s) == [ a \in AxisNames |-> s.axes[a].order ]

\* AxisAnnot.plot_f: pass
AxisAnnot_plot_f(s, e) == s

\* GenomeTree.plot_f reads self.x_index and self.y_index at its first
\* statement, which GenomeTree.__init__ assigns after super().__init__()
\* has returned, and self.node_positions after that
GenomeTree_plot_f(s, e) ==
    IF ~({"x_index", "y_index"} \subseteq s.attrs[e.id])
    THEN Raise(s, "AttributeError: x_index")
    ELSE IF "node_positions" \notin s.attrs[e.id]
    THEN Raise(s, "AttributeError: node_positions")
    ELSE s

\* variant: the heatmap's plot step sorts the axis it draws
HeatmapElement_plot_f_reorders(s, e) ==
    IF "df_wide" \notin s.attrs[e.id]
    THEN Raise(s, "AttributeError: df_wide")
    ELSE [ SetAttrs(s, e.id, {"zmin"}) EXCEPT
             !.axes[e.y_axis].order =
                 [ i \in DOMAIN @ |-> @[Len(@) + 1 - i] ] ]

\* HeatmapElement.plot_f reads self.df_wide and the axes, assigns self.zmin
HeatmapElement_plot_f(s, e) ==
    IF "df_wide" \notin s.attrs[e.id]
    THEN Raise(s, "AttributeError: df_wide")
    ELSE SetAttrs(s, e.id, {"zmin"})

\* HeatmapColorbarElement.plot_f reads min_val, max_val, colorscale and zmin
\* of self.heatmap_elem
HeatmapColorbarElement_plot_f(s, e) ==
    IF "heatmap_elem" \notin s.attrs[e.id]
    THEN Raise(s, "AttributeError: heatmap_elem")
    ELSE IF ~({"min_val", "max_val", "colorscale", "zmin"}
                \subseteq s.attrs[e.heatmap_id])
         THEN Raise(s, "AttributeError: heatmap_elem attribute")
    ELSE s

----------------------------------------------------------------------------
(* FigureBuilder *)

ElementById(id) == elements[CHOOSE i \in DOMAIN elements : elements[i].id = id]

\* The caller of parse_args, read_data and make_plots is not part of the code
\* at hand.  Per the specification it calls the three once each, in this
\* order, each after the one before has returned.
DriverCalls(method) ==
    CASE method = "parse_args" -> phase = "CONSTRUCTED"
      [] method = "read_data" -> phase = "ARGUMENTS_PARSED"
      [] method = "make_plots" -> phase = "DATA_READ"

\* parse_args: every declared argument gets the value given on the command
\* line, or its default; a namespace without arguments gets no entry
ParsedParams(av) ==
    [ ns \in { n \in {"global"} \cup { elements[i].id : i \in DOMAIN elements } :
                DOMAIN ArgDefaults(n) # {} } |->
        [ k \in DOMAIN ArgDefaults(ns) |->
            IF k \in DOMAIN av[ns] THEN av[ns][k] ELSE ArgDefaults(ns)[k] ] ]

\* self.params[ns], self.params being a defaultdict(dict): a namespace
\* that is looked up and is not there is entered, empty
defaultdict_get(ps, ns) ==
    IF ns \in DOMAIN ps THEN ps
    ELSE [ n \in DOMAIN ps \cup { ns } |-> IF n = ns THEN EmptyFn ELSE ps[n] ]

\* in a run carried past the call of a step: what the step is handed from
\* the namespace ns
StepKeywords(ns) == Keywords(defaultdict_get(params, ns)[ns])

\* self.read_f and element.read_f are called with the entries of
\* self.params[id] as keyword arguments, and no other: every read_f takes the
\* Builder as 'fb', its first parameter, which the call does not fill
read_data_call(s) ==
    Raise(s, "TypeError: read_f() missing 1 required positional argument: 'fb'")

\* element.plot_f(self.subplots, self.params[element.id],
\* self.data[element.id], self.params, self.data): every plot_f takes the
\* Builder and nothing else
make_plots_call(s) ==
    Raise(s, "TypeError: plot_f() takes 2 positional arguments but 6 were given")

\* the outcome of a step of an Element: that of the call, which is refused;
\* in a run carried past the call, that of the body b
StepCall(refused, b) == IF passes_fb THEN b ELSE refused

\* read_data: the n-th read step (from 0) is the global one, then the
\* Elements in the order of self.elements
read_data_target(n) == IF n = 0 THEN "global" ELSE elements[n].id

\* read_data: the parameters a read step receives
read_data_namespace(id) == id

\* read_data returns after the read step of the last Element
read_data_returns(n) == n = 1 + Len(elements)

\* make_plots: the n-th plot step (from 1); every Element of self.elements
\* is called, whatever its enabled flag
make_plots_target(n) == elements[n].id

\* make_plots returns after the plot step of the last Element
make_plots_returns(n) == n = Len(elements)

\* variant: the loops catch what a step raises and go on
step_error_caught(err) == "none"

\* read_data and make_plots call the steps outside any try: what a step
\* raises leaves the method
step_error(err) == err

ReadTarget == read_data_target(Len(readLog))

\* read_data has been called and has read steps left to invoke
read_data_loop ==
    /\ DriverCalls("read_data")
    /\ params # EmptyFn
    /\ Len(readLog) <= Len(elements)

Reading ==
    /\ error = "none"
    /\ read_data_loop

ReadingKind(kind) ==
    /\ Reading
    /\ ReadTarget # "global"
    /\ ElementById(ReadTarget).kind = kind

\* variant: what the read step of a disabled Element returned is dropped
read_data_store_enabled(d, id, r) ==
    IF r.error = "none" /\ (id = "global" \/ r.enabled[id])
    THEN d \cup {id} ELSE d

\* self.data[element.id] = element.read_f(...): the entry is made when the
\* read step has returned
read_data_store(d, id, r) == IF r.error = "none" THEN d \cup {id} ELSE d

\* the bookkeeping of one read step that leaves the state r; the log holds
\* the steps that were entered
ReadBook(r, entered) ==
    /\ params' = defaultdict_get(params, read_data_namespace(ReadTarget))
    /\ readLog' = IF entered
                  THEN Append(readLog,
                              [ id |-> ReadTarget,
                                ns |-> read_data_namespace(ReadTarget),
                                raised |-> r.error # "none" ])
                  ELSE readLog
    /\ data' = read_data_store(data, ReadTarget, r)
    /\ phase' = IF /\ step_error(r.error) = "none"
                   /\ read_data_returns(Len(readLog) + 1)
                THEN "DATA_READ" ELSE phase
    /\ axes' = r.axes
    /\ enabled' = r.enabled
    /\ attrs' = r.attrs
    /\ orderLog' = r.orderLog
    /\ linkageLog' = r.linkageLog
    /\ error' = step_error(r.error)
    /\ UNCHANGED << passes_fb, ctor, args, elements, argv, env, plotLog,
                    agg >>

\* one read step of an Element whose body would leave the state b
ReadStep(b) == ReadBook(StepCall(read_data_call(Cur), b), passes_fb)

PlotTarget == make_plots_target(Len(plotLog) + 1)

Plotting ==
    /\ error = "none"
    /\ DriverCalls("make_plots")
    /\ Len(plotLog) < Len(elements)

PlottingKind(kind) ==
    /\ Plotting
    /\ ElementById(PlotTarget).kind = kind

\* make_plots looks up self.params[id] and self.data[id] for the call
PlotLookupFails == PlotTarget \notin data

\* variant: one tick position for every member of the axis
format_axis_ticks_by_members(a) ==
    [ tickvals |-> [ i \in 1..Cardinality(member_set(a)) |-> i - 1 ],
      ticktext |-> AxisLabels(a) ]

\* tickvals=list(range(fb.axis("genome").length())),
\* ticktext=fb.axis("genome").labels()
format_axis_ticks(a) ==
    [ tickvals |-> [ i \in 1..AxisLength(a) |-> i - 1 ],
      ticktext |-> AxisLabels(a) ]

\* the ticks a plot step hands to format_axis: those of the genome axis in
\* the tree's and the heatmap's plot_f, none in the others
TicksOf(kind, r) ==
    IF r.error = "none" /\ kind \in {"GenomeTree", "HeatmapElement"}
    THEN format_axis_ticks(r.axes["genome"])
    ELSE [ tickvals |-> <<>>, ticktext |-> <<>> ]

\* the bookkeeping of one plot step that leaves the state r; the log holds
\* the steps that were entered
PlotBook(r, entered) ==
    /\ params' = defaultdict_get(params, PlotTarget)
    /\ plotLog' = IF entered
                  THEN Append(plotLog,
                              [ id |-> PlotTarget,
                                enabled |-> enabled[PlotTarget],
                                order |-> AxisOrders(Cur),
                                ticks |-> TicksOf(ElementById(PlotTarget).kind, r),
                                raised |-> r.error # "none" ])
                  ELSE plotLog
    /\ phase' = IF /\ step_error(r.error) = "none"
                   /\ make_plots_returns(Len(plotLog) + 1)
                THEN "RENDERED" ELSE phase
    /\ axes' = r.axes
    /\ enabled' = r.enabled
    /\ attrs' = r.attrs
    /\ orderLog' = r.orderLog
    /\ error' = step_error(r.error)
    /\ UNCHANGED << passes_fb, ctor, args, elements, argv, env, data,
                    readLog, linkageLog, agg >>

\* one plot step of an Element whose body would leave the state b
PlotStep(b) ==
    IF PlotLookupFails THEN PlotBook(Raise(Cur, "KeyError"), FALSE)
    ELSE PlotBook(StepCall(make_plots_call(Cur), b), passes_fb)

----------------------------------------------------------------------------
(* Actions of a run of the Builder *)

\* a read step opens a file only when its path was given
FilesAt(path, files, nothing) == IF path = None THEN { nothing } ELSE files

\* a path that leads to no file
NoTable == [ found |-> FALSE, columns |-> {}, index |-> <<>> ]

NoListing == [ found |-> FALSE, lines |-> <<>> ]

NoDistmat == [ found |-> FALSE, index |-> {}, dup |-> FALSE ]

NoHeatmap == [ found |-> FALSE, columns |-> {}, cells |-> {}, dup |-> FALSE ]

\* what make_nj_tree may do with the genomes it is handed; nothing is known
\* of it on a matrix that holds a genome twice
TreesOver(a, dm) ==
    TreeOutcomes(GenomeTree_genomes(a, dm.index))
        \cup IF dm.dup THEN { [ ok |-> FALSE, genome_order |-> <<>> ] } ELSE {}

parse_args ==
    /\ error = "none"
    /\ DriverCalls("parse_args")
    /\ params' = ParsedParams(argv)
    /\ phase' = "ARGUMENTS_PARSED"
    /\ UNCHANGED << passes_fb, ctor, args, elements, argv, env, data, enabled, axes,
                    attrs, readLog, plotLog, orderLog, linkageLog, agg, error >>

\* self.data['global'] = self.read_f(...), the first call of read_data;
\* GigMapFigure.read_f keeps the two values and returns
read_global ==
    /\ Reading
    /\ ReadTarget = "global"
    /\ ReadStep(Cur)

read_AxisAnnot ==
    /\ ReadingKind("AxisAnnot")
    /\ LET e == ElementById(ReadTarget)
           p == StepKeywords(read_data_namespace(ReadTarget))
       IN  \E table \in FilesAt(p.csv, env.tables[e.axis_label], NoTable) :
           \E listing \in FilesAt(IF p.csv = None THEN None ELSE p.order,
                                   env.orders[e.axis_label], NoListing) :
               ReadStep(AxisAnnot_read_f(Cur, e, p, table, listing))

read_GenomeTree ==
    /\ ReadingKind("GenomeTree")
    /\ LET e == ElementById(ReadTarget)
           p == StepKeywords(read_data_namespace(ReadTarget))
       IN  \E dm \in FilesAt(p.distmat, env.distmats, NoDistmat) :
           \E tree \in TreesOver(axes["genome"], dm) :
               ReadStep(GenomeTree_read_f(Cur, e, p, dm, tree))

read_HeatmapElement ==
    /\ ReadingKind("HeatmapElement")
    /\ LET e == ElementById(ReadTarget)
           p == StepKeywords(read_data_namespace(ReadTarget))
       IN  \E f \in FilesAt(p.csv, env.heatmaps, NoHeatmap) :
               ReadStep(HeatmapElement_read_f(Cur, e, p, f))

read_HeatmapColorbarElement ==
    /\ ReadingKind("HeatmapColorbarElement")
    /\ ReadStep(HeatmapColorbarElement_read_f(Cur, ElementById(ReadTarget)))

plot_AxisAnnot ==
    /\ PlottingKind("AxisAnnot")
    /\ PlotStep(AxisAnnot_plot_f(Cur, ElementById(PlotTarget)))

plot_GenomeTree ==
    /\ PlottingKind("GenomeTree")
    /\ PlotStep(GenomeTree_plot_f(Cur, ElementById(PlotTarget)))

plot_HeatmapElement ==
    /\ PlottingKind("HeatmapElement")
    /\ PlotStep(HeatmapElement_plot_f(Cur, ElementById(PlotTarget)))

plot_HeatmapColorbarElement ==
    /\ PlottingKind("HeatmapColorbarElement")
    /\ PlotStep(HeatmapColorbarElement_plot_f(Cur, ElementById(PlotTarget)))

----------------------------------------------------------------------------
(* The command lines and the files of a run *)

AnnotArgvs == { [ k \in K |-> Given ] : K \in SUBSET {"csv", "order"} }

ArgvChoices(ns) ==
    CASE ns \in {"genomeAnnot", "geneAnnot"} -> AnnotArgvs
      [] ns = "genomeTree" -> { [ k \in K |-> Given ] : K \in SUBSET {"distmat"} }
      [] ns = "genomeHeatmap" -> { [ k \in K |-> Given ] : K \in SUBSET {"csv"} }
      [] OTHER -> { EmptyFn }

Argvs ==
    { av \in [ Namespaces -> UNION { ArgvChoices(ns) : ns \in Namespaces } ] :
        \A ns \in Namespaces : av[ns] \in ArgvChoices(ns) }

\* the column of an annotation table that holds the labels
LabelColumn == "label"

\* the column of the annotation table of an axis that holds the IDs
IndexColumn(axis) == AxisAnnot_args(axis)["index-col"]

\* a table with the ID column, the label column and the rows t
Table(axis, t) ==
    [ found |-> TRUE, columns |-> { IndexColumn(axis), LabelColumn },
      index |-> t ]

\* no file, a file without the ID column, and a file without the label
\* column, both without rows
BadTables(axis) ==
    { NoTable,
      [ found |-> TRUE, columns |-> { LabelColumn }, index |-> <<>> ],
      [ found |-> TRUE, columns |-> { IndexColumn(axis) }, index |-> <<>> ] }

\* the sequences over ids of up to as many entries as there are ids: an ID
\* may come more than once
SeqsUpTo(ids) == UNION { SeqsOfLen(ids, n) : n \in 0..Cardinality(ids) }

\* the files a path may lead to: a table has one row per line of the file,
\* whatever IDs the lines hold
Tables(axis, ids) ==
    BadTables(axis) \cup { Table(axis, t) : t \in SeqsUpTo(ids) }

\* the tables that hold no ID twice
TablesOfDistinct(axis, ids) ==
    BadTables(axis) \cup { Table(axis, t) : t \in DupFreeSeqs(ids) }

Listing(l) == [ found |-> TRUE, lines |-> l ]

\* no file, and the files of any lines: read_lines returns every line
Listings(ids) == { NoListing } \cup { Listing(l) : l \in SeqsUpTo(ids) }

\* the order files that name no ID twice
ListingsOfDistinct(ids) ==
    { NoListing } \cup { Listing(l) : l \in DupFreeSeqs(ids) }

\* no file, and the matrices over some of the genomes, a genome once or
\* some genome twice
Distmats(genomes) ==
    { NoDistmat }
    \cup { [ found |-> TRUE, index |-> d, dup |-> FALSE ] : d \in SUBSET genomes }
    \cup { [ found |-> TRUE, index |-> d, dup |-> TRUE ] :
             d \in (SUBSET genomes) \ {{}} }

HeatmapColumns == { "sseqid", "genome", "pident" }

\* no file, the files that lack one of the three columns, and the files
\* that have them: any cells, each once or some cell twice
Heatmaps(genomes, genes) ==
    { NoHeatmap }
    \cup { [ found |-> TRUE, columns |-> HeatmapColumns \ { c },
             cells |-> {}, dup |-> FALSE ] : c \in HeatmapColumns }
    \cup { [ found |-> TRUE, columns |-> HeatmapColumns,
             cells |-> k, dup |-> FALSE ] : k \in SUBSET (genomes \X genes) }
    \cup { [ found |-> TRUE, columns |-> HeatmapColumns,
             cells |-> k, dup |-> TRUE ] :
             k \in (SUBSET (genomes \X genes)) \ {{}} }

\* the files of a run: tables and order files that name no ID twice
RunEnv ==
    [ tables |-> [ a \in AxisNames |-> TablesOfDistinct(a, IdsOf(a)) ],
      orders |-> [ a \in AxisNames |-> ListingsOfDistinct(IdsOf(a)) ],
      distmats |-> Distmats(GenomeIds),
      heatmaps |-> Heatmaps(GenomeIds, GeneIds) ]

\* the global arguments GigMapFigure declares
GigMapArgs == << "output-prefix", "output-folder" >>

\* variant: the elements are returned unchecked
validate_elements_unchecked(elems) ==
    [ error |-> "none", elements |-> elems ]

\* validate_elements(elements): its loop is over self.elements, which
\* __init__ binds only to what this call returns, so the loop raises before
\* it has looked at an id
validate_elements(elems) ==
    [ error |-> "AttributeError: object has no attribute 'elements'",
      elements |-> <<>> ]

\* __init__: self.args is bound before read_f and the elements are checked
FigureBuilder_init(c) ==
    IF c.read_f # "function"
    THEN [ error |-> "AssertionError", args |-> c.args, elements |-> <<>> ]
    ELSE LET v == validate_elements(c.elements)
         IN  [ error |-> v.error, args |-> c.args, elements |-> v.elements ]

\* FigureElement.__init__: the asserts on read_f and plot_f, then
\* self.id = id; self.args = args; self.read_f = read_f; self.plot_f = plot_f
FigureElement_init(read_f, plot_f) ==
    IF read_f # "function"
    THEN [ error |-> "AssertionError: read_f must be a function",
           attrs |-> {} ]
    ELSE IF plot_f # "function"
    THEN [ error |-> "AssertionError: plot_f must be a function",
           attrs |-> {} ]
    ELSE [ error |-> "none", attrs |-> { "id", "args", "read_f", "plot_f" } ]

\* the Element classes of gig_map_elements.py call super().__init__ with an
\* id and args, and with neither read_f nor plot_f
Element_init(e) == FigureElement_init(None, None)

\* GigMapFigure.__init__: the Elements of the list are constructed, in list
\* order, before FigureBuilder.__init__ is called with the two arguments,
\* the list, and no read_f
GigMapFigure_init(c) ==
    LET raising == { i \in DOMAIN c.elements :
                       Element_init(c.elements[i]).error # "none" }
        first == CHOOSE i \in raising : \A j \in raising : i <= j
    IN  IF raising # {}
        THEN [ error |-> Element_init(c.elements[first]).error,
               args |-> <<>>, elements |-> <<>> ]
        ELSE FigureBuilder_init(c)

\* the call GigMapFigure makes, over the Elements els
GigMapCall(els) == [ args |-> GigMapArgs, read_f |-> None, elements |-> els ]

\* a call of FigureBuilder with the arguments a, a function and the
\* Elements els
BuilderCall(a, els) == [ args |-> a, read_f |-> "function", elements |-> els ]

\* before the constructor call c: nothing is bound yet
Unbuilt(c) ==
    /\ passes_fb = FALSE
    /\ ctor = c
    /\ args = <<>>
    /\ elements = <<>>
    /\ phase = "NEW"
    /\ params = EmptyFn
    /\ data = {}
    /\ enabled = EmptyFn
    /\ axes = EmptyFn
    /\ attrs = EmptyFn
    /\ readLog = <<>>
    /\ plotLog = <<>>
    /\ orderLog = <<>>
    /\ linkageLog = <<>>
    /\ agg = EmptyFn
    /\ error = "none"

\* FigureBuilder(args, read_f, elements)
construct ==
    /\ phase = "NEW"
    /\ error = "none"
    /\ LET r == FigureBuilder_init(ctor)
       IN  /\ args' = r.args
           /\ elements' = r.elements
           /\ error' = r.error
           /\ phase' = IF r.error = "none" THEN "CONSTRUCTED" ELSE "NEW"
    /\ UNCHANGED << passes_fb, ctor, argv, env, params, data, enabled, axes, attrs,
                    readLog, plotLog, orderLog, linkageLog, agg >>

\* GigMapFigure()
construct_GigMapFigure ==
    /\ phase = "NEW"
    /\ error = "none"
    /\ LET r == GigMapFigure_init(ctor)
       IN  /\ args' = r.args
           /\ elements' = r.elements
           /\ error' = r.error
           /\ phase' = IF r.error = "none" THEN "CONSTRUCTED" ELSE "NEW"
    /\ UNCHANGED << passes_fb, ctor, argv, env, params, data, enabled, axes, attrs,
                    readLog, plotLog, orderLog, linkageLog, agg >>

\* the attributes of an Element object: what FigureElement.__init__ assigns
FigureElementAttrs == FigureElement_init("function", "function").attrs

\* The run carried past the constructor, which raised: a Builder that holds
\* the arguments and the Elements of the call, every Axis new.  The
\* Elements carry what FigureElement.__init__ assigns, the tree what
\* GenomeTree.__init__ assigns after it as well, or the flag
\* 'enabled' and the method disable() besides, which the Elements use and
\* no class gives them; the steps are called as read_data and make_plots
\* call them, or entered.  No call of the code leads here.
Builder_constructed ==
    /\ phase = "NEW"
    /\ error = "none"
    /\ passes_fb' \in BOOLEAN
    /\ args' = ctor.args
    /\ elements' = ctor.elements
    /\ phase' = "CONSTRUCTED"
    /\ enabled' = [ id \in ElementIds |-> TRUE ]
    /\ axes' = [ a \in AxisNames |-> NewAxis ]
    /\ \E at \in { FigureElementAttrs,
                   FigureElementAttrs \cup { "enabled", "disable" } } :
           attrs' = [ id \in ElementIds |->
                        IF id = "genomeTree"
                        THEN at \cup { "x_index", "y_index" } ELSE at ]
    /\ UNCHANGED << ctor, argv, env, params, data, readLog, plotLog, orderLog,
                    linkageLog, agg, error >>

Init ==
    /\ Unbuilt(GigMapCall(Elements))
    /\ argv \in Argvs
    /\ env = RunEnv

Next ==
    \/ construct_GigMapFigure
    \/ Builder_constructed
    \/ parse_args
    \/ read_global
    \/ read_AxisAnnot
    \/ read_GenomeTree
    \/ read_HeatmapElement
    \/ read_HeatmapColorbarElement
    \/ plot_AxisAnnot
    \/ plot_GenomeTree
    \/ plot_HeatmapElement
    \/ plot_HeatmapColorbarElement

Spec == Init /\ [][Next]_vars

----------------------------------------------------------------------------
(* Runs carried past the statements that raise: where the code departs    *)
(* from the specification.                                                 *)

DeclIndex(id) == CHOOSE i \in DOMAIN Elements : Elements[i].id = id

LogIds(log) == [ i \in DOMAIN log |-> log[i].id ]

ReadPhaseOver == phase \in {"DATA_READ", "RENDERED"}

\* the offers of the tree Element, as logged
TreeOffers == { i \in DOMAIN orderLog : orderLog[i].elem = "genomeTree" }

\* C3: when the tree Element is enabled, the 'genome' axis ends the read
\* phase in the tree's leaf order, whatever the annotation Element supplied.
C3_TreeOrderWins ==
    (ReadPhaseOver /\ enabled["genomeTree"]) =>
        \A i \in TreeOffers : axes["genome"].order = orderLog[i].offered

GigMapReadOrder ==
    << "global", "genomeAnnot", "geneAnnot", "genomeTree", "genomeHeatmap",
       "genomeColorbar" >>

\* C8: the read steps invoked so far are the global one and then the
\* Elements' in declaration order, each once and each with the parameters of
\* its own namespace; when the read phase is over all of them have run; and
\* no step is refused what the call hands it, so that each one is entered.
C8_ReadOrder ==
    /\ IsPrefixOf(LogIds(readLog), GigMapReadOrder)
    /\ \A i \in DOMAIN readLog : readLog[i].ns = readLog[i].id
    /\ ReadPhaseOver => LogIds(readLog) = GigMapReadOrder
    /\ error # read_data_call(Cur).error


\* C9: no plot step is invoked on an Element that is disabled.
C9_DisabledNeverPlotted ==
    \A i \in DOMAIN plotLog : plotLog[i].enabled

RunOver == phase = "RENDERED" \/ error # "none"

\* C10: when a run that got to the plot phase is over, the plot steps invoked
\* on enabled Elements are those of all enabled Elements, once each, in
\* declaration order.
C10_EnabledPlottedInOrder ==
    (RunOver /\ ReadPhaseOver) =>
        SelectSeq(LogIds(plotLog), LAMBDA id : enabled[id])
            = SelectSeq(ElementIdSeq, LAMBDA id : enabled[id])

ReadIds == Range(LogIds(readLog))

\* the argument that carries the optional input path of an Element
PathOf(id) ==
    IF id = "genomeTree" THEN params[id].distmat ELSE params[id].csv

OptionalInputElements ==
    { "genomeAnnot", "geneAnnot", "genomeTree", "genomeHeatmap" }

\* C30: every Element has its enabled attribute, and has it true, from
\* construction until its own read step; an Element whose input path was
\* given is enabled at the end of the read phase; and the read step of the
\* colorbar whose heatmap was given a CSV and has read it returns without an
\* error and with the colorbar enabled.
C30_EnabledFromConstruction ==
    /\ \A id \in DOMAIN attrs :
          id \notin ReadIds => "enabled" \in attrs[id] /\ enabled[id]
    /\ ReadPhaseOver =>
          \A id \in OptionalInputElements : PathOf(id) # None => enabled[id]
    /\ ( /\ "genomeColorbar" \in ReadIds
         /\ "genomeHeatmap" \in data
         /\ PathOf("genomeHeatmap") # None ) =>
            "genomeColorbar" \in data /\ enabled["genomeColorbar"]

\* the plot steps invoked on the Builder itself (GigMapFigure.plot_f)
GlobalPlots == { i \in DOMAIN plotLog : plotLog[i].id = "global" }

\* C33: when make_plots has returned, the plot step of the Builder has been
\* invoked once, after the plot steps of the Elements.
C33_GlobalLayoutOnce ==
    phase = "RENDERED" =>
        /\ Cardinality(GlobalPlots) = 1
        /\ plotLog[Len(plotLog)].id = "global"

----------------------------------------------------------------------------
(* Builders over other element lists than GigMapFigure's: the same Elements *)
(* with the heatmap left out, so that the colorbar is paired with an id     *)
(* that names no Element of the Builder.                                    *)

WithoutHeatmap == SelectSeq(Elements, LAMBDA e : e.kind # "HeatmapElement")

\* any options of the Elements the Builder holds
InitPairing ==
    /\ Unbuilt(GigMapCall(WithoutHeatmap))
    /\ argv \in { av \in Argvs : av["genomeHeatmap"] = EmptyFn }
    /\ env = RunEnv

\* the colorbar's read step is the last that is reached
NextPairing ==
    \/ construct_GigMapFigure
    \/ Builder_constructed
    \/ parse_args
    \/ read_global
    \/ read_AxisAnnot
    \/ read_GenomeTree
    \/ read_HeatmapColorbarElement

SpecPairing == InitPairing /\ [][NextPairing]_vars

Colorbar == ElementById("genomeColorbar")

\* C12: when the heatmap_id of the colorbar names no Element of the Builder,
\* the colorbar's read step leaves it disabled and returns without an error.
C12_UnpairedColorbarDisabled ==
    ( "genomeColorbar" \in ReadIds /\ ~HasElement(Colorbar.heatmap_id) ) =>
        /\ ~enabled["genomeColorbar"]
        /\ "genomeColorbar" \in data
        /\ error = "none"

----------------------------------------------------------------------------
(* Identifiers and keys as strings: tuples of one-character strings.  A     *)
(* Builder is declared by its global argument keys and, per Element, an id  *)
(* and argument keys.                                                       *)

Str_a == << "a" >>
Str_a_b == << "a", "-", "b" >>
Str_c == << "c" >>
Str_b_c == << "b", "-", "c" >>
Str_b__c == << "b", "_", "c" >>
Str_a_c == << "a", "-", "c" >>
Str_a__c == << "a", "_", "c" >>
Str_x == << "x" >>
OutputPrefix ==
    << "o", "u", "t", "p", "u", "t", "-", "p", "r", "e", "f", "i", "x" >>

DeclaredIds == { Str_a, Str_a_b }
ElementKeys == { Str_c, Str_b_c, Str_b__c }
GlobalKeys == { OutputPrefix, Str_a_c, Str_a__c }

\* the argument lists of up to two keys
KeyLists(keys) == { l \in DupFreeSeqs(keys) : Len(l) <= 2 }

DeclaredElements == { [ id |-> i, args |-> l ] :
                        i \in DeclaredIds, l \in KeyLists(ElementKeys) }

\* the element lists of up to two Elements, ids repeated or not
ElementLists ==
    { <<>> } \cup { << e >> : e \in DeclaredElements }
             \cup { << e, f >> : e \in DeclaredElements, f \in DeclaredElements }

HasDuplicateIds(els) ==
    \E i, j \in DOMAIN els : i # j /\ els[i].id = els[j].id

----------------------------------------------------------------------------
(* The constructor calls of Builders declared by their keys *)

\* before the constructor call: nothing is bound yet
InitConstruct ==
    /\ passes_fb = FALSE
    /\ ctor \in [ args : KeyLists(GlobalKeys),
                  read_f : { "function", None },
                  elements : ElementLists ]
    /\ args = <<>>
    /\ elements = <<>>
    /\ argv = EmptyFn
    /\ env = EmptyFn
    /\ phase = "NEW"
    /\ params = EmptyFn
    /\ data = {}
    /\ enabled = EmptyFn
    /\ axes = EmptyFn
    /\ attrs = EmptyFn
    /\ readLog = <<>>
    /\ plotLog = <<>>
    /\ orderLog = <<>>
    /\ linkageLog = <<>>
    /\ agg = EmptyFn
    /\ error = "none"

NextConstruct == construct

SpecConstruct == InitConstruct /\ [][NextConstruct]_vars

\* C17: a Builder whose element list holds two Elements of the same id is
\* never constructed: the constructor call ends in an error, with no
\* argument parsed and no read step invoked.
C17_DuplicateIdsRejected ==
    [][ HasDuplicateIds(ctor.elements) =>
          /\ error' # "none"
          /\ phase' = "NEW"
          /\ params' = EmptyFn
          /\ readLog' = <<>> ]_vars

\* the constructor was called with two Elements of one id and a read_f that
\* is a function, and has raised
C17_Witness ==
    /\ HasDuplicateIds(ctor.elements)
    /\ ctor.read_f = "function"
    /\ args = ctor.args
    /\ error # "none"

----------------------------------------------------------------------------
(* FigureBuilder.parse_args and add_param over the spelled keys.  The       *)
(* command line is a sequence of option strings, each followed by a value;  *)
(* the value names the option it was given for.                             *)

\* str.replace("-", "_")
Underscored(s) == [ i \in DOMAIN s |-> IF s[i] = "-" THEN "_" ELSE s[i] ]

GlobalNs == << "g", "l", "o", "b", "a", "l" >>

\* parser.add_argument(f"--{arg.key}", ...)
GlobalOptions(a) ==
    [ i \in DOMAIN a |->
        [ option |-> << "-", "-" >> \o a[i], ns |-> GlobalNs, key |-> a[i] ] ]

\* arg_group.add_argument(f"--{element.id}-{arg.key}", ...)
ElementOptions(e) ==
    [ j \in DOMAIN e.args |->
        [ option |-> << "-", "-" >> \o e.id \o << "-" >> \o e.args[j],
          ns |-> e.id, key |-> e.args[j] ] ]

RECURSIVE AllElementOptions(_)
AllElementOptions(els) ==
    IF els = <<>> THEN <<>>
    ELSE ElementOptions(Head(els)) \o AllElementOptions(Tail(els))

\* the options parse_args declares, in the order it declares them
DeclaredOptions(a, els) == GlobalOptions(a) \o AllElementOptions(els)

RECURSIVE LStrip(_)
LStrip(s) == IF s # <<>> /\ Head(s) = "-" THEN LStrip(Tail(s)) ELSE s

\* argparse: the namespace attribute of an option
ArgparseDest(option) == Underscored(LStrip(option))

\* argparse: add_argument raises on an option string it already has
ArgparseConflict(decls) ==
    \E i, j \in DOMAIN decls : i < j /\ decls[i].option = decls[j].option

\* variant: the parser passes over what it does not know
ArgparseUnrecognized_ignored(decls, cmd) == FALSE

\* argparse: an option string on the command line that was not declared
ArgparseUnrecognized(decls, cmd) ==
    \E i \in DOMAIN cmd : \A j \in DOMAIN decls : decls[j].option # cmd[i]

ValueOf(option) == << "value" >> \o option

DefaultOf(option) == << "default" >> \o option

\* argparse: the attribute holds the value of the last option given for it,
\* or the default of the first option declared for it
NamespaceValue(decls, cmd, dest) ==
    LET given == { i \in DOMAIN cmd : ArgparseDest(cmd[i]) = dest }
        declared == { j \in DOMAIN decls : ArgparseDest(decls[j].option) = dest }
    IN  IF given # {}
        THEN ValueOf(cmd[CHOOSE i \in given : \A k \in given : k <= i])
        ELSE DefaultOf(decls[CHOOSE j \in declared :
                                \A k \in declared : j <= k].option)

\* parse_args().__dict__.items(): one item per attribute, in the order the
\* attributes were first declared
Namespace(decls, cmd) ==
    LET firsts == { j \in DOMAIN decls :
                      \A i \in DOMAIN decls :
                          i < j => ArgparseDest(decls[i].option)
                                     # ArgparseDest(decls[j].option) }
        nth(n) == CHOOSE j \in firsts :
                      Cardinality({ i \in firsts : i < j }) = n - 1
    IN  [ n \in 1..Cardinality(firsts) |->
            LET dest == ArgparseDest(decls[nth(n)].option)
            IN  [ kw |-> dest, val |-> NamespaceValue(decls, cmd, dest) ] ]

\* self.params[ns][k] = v, self.params being a defaultdict(dict)
Store(ps, ns, k, v) ==
    LET old == IF ns \in DOMAIN ps THEN ps[ns] ELSE EmptyFn
    IN  [ n \in DOMAIN ps \cup { ns } |->
            IF n = ns
            THEN [ x \in DOMAIN old \cup { k } |-> IF x = k THEN v ELSE old[x] ]
            ELSE ps[n] ]

\* raise Exception(f"Could not find a match for argument: {kw}")
add_param_no_match(ps, kw) ==
    [ error |-> "Exception: Could not find a match for argument",
      params |-> ps ]

\* add_param(kw, val): the first global argument whose underscored key is kw
\* takes the value, under kw; else the first argument of an Element with
\* f"{element.id}_{underscored key}" equal to kw, under its declared key
add_param(a, els, ps, kw, val) ==
    LET decls == AllElementOptions(els)
        hits == { j \in DOMAIN decls :
                    decls[j].ns \o << "_" >> \o Underscored(decls[j].key) = kw }
    IN  IF \E i \in DOMAIN a : Underscored(a[i]) = kw
        THEN [ error |-> "none", params |-> Store(ps, GlobalNs, kw, val) ]
        ELSE IF hits # {}
             THEN LET j == CHOOSE h \in hits : \A k \in hits : h <= k
                  IN  [ error |-> "none",
                        params |-> Store(ps, decls[j].ns, decls[j].key, val) ]
        ELSE add_param_no_match(ps, kw)

RECURSIVE add_params(_, _, _, _)
\* for kw, val in ...items(): self.add_param(kw, val)
add_params(a, els, ps, items) ==
    IF items = <<>> THEN [ error |-> "none", params |-> ps ]
    ELSE LET r == add_param(a, els, ps, Head(items).kw, Head(items).val)
         IN  IF r.error # "none" THEN r
             ELSE add_params(a, els, r.params, Tail(items))

FigureBuilder_parse_args(a, els, cmd) ==
    LET decls == DeclaredOptions(a, els)
    IN  IF ArgparseConflict(decls)
        THEN [ error |-> "ArgumentError: conflicting option string",
               params |-> EmptyFn ]
        ELSE IF ArgparseUnrecognized(decls, cmd)
             THEN [ error |-> "SystemExit: unrecognized arguments",
                    params |-> EmptyFn ]
        ELSE add_params(a, els, EmptyFn, Namespace(decls, cmd))

parse_command_line ==
    /\ error = "none"
    /\ DriverCalls("parse_args")
    /\ LET r == FigureBuilder_parse_args(args, elements, argv)
       IN  /\ params' = r.params
           /\ error' = r.error
           /\ phase' = IF r.error = "none" THEN "ARGUMENTS_PARSED" ELSE phase
    /\ UNCHANGED << passes_fb, ctor, args, elements, argv, env, data, enabled, axes,
                    attrs, readLog, plotLog, orderLog, linkageLog, agg >>

\* the builders with distinct ids, and command lines of at most one option:
\* a declared one, or --x, which none of the declared options begins with
InitParse ==
    /\ \E a \in KeyLists(GlobalKeys) :
       \E els \in { l \in ElementLists : ~HasDuplicateIds(l) } :
           /\ Unbuilt(BuilderCall(a, els))
           /\ argv \in { <<>>, << << "-", "-" >> \o Str_x >> }
                       \cup { << DeclaredOptions(a, els)[j].option >> :
                                j \in DOMAIN DeclaredOptions(a, els) }
    /\ env = EmptyFn

NextParse ==
    \/ construct
    \/ Builder_constructed
    \/ parse_command_line

SpecParse == InitParse /\ [][NextParse]_vars

\* parse_args has returned or raised
ParseOver ==
    phase = "ARGUMENTS_PARSED" \/ ( phase = "CONSTRUCTED" /\ error # "none" )

Declarations == DeclaredOptions(args, elements)

\* two declarations share a boundary key once the keys are normalised
Collides ==
    \E i, j \in DOMAIN Declarations :
        /\ i < j
        /\ ArgparseDest(Declarations[i].option)
             = ArgparseDest(Declarations[j].option)

\* the value the boundary delivers for a declared option
BoundaryValue(option) ==
    IF \E i \in DOMAIN argv : argv[i] = option
    THEN ValueOf(option) ELSE DefaultOf(option)

\* C15: after parse_args on declarations that do not collide and a command
\* line of declared options, the value of every '{e}-{k}' is at
\* params[e][k] and the value of every global k at params['global'][k].
C15_NamespacingRoundTrip ==
    ( /\ ParseOver
      /\ ~Collides
      /\ ~ArgparseUnrecognized(Declarations, argv) ) =>
        \A j \in DOMAIN Declarations :
            LET d == Declarations[j]
            IN  /\ d.ns \in DOMAIN params
                /\ d.key \in DOMAIN params[d.ns]
                /\ params[d.ns][d.key] = BoundaryValue(d.option)

\* the keys the boundary delivers: the attributes of the namespace, and the
\* attribute an undeclared option would have had
BoundaryKeys ==
    { ArgparseDest(Declarations[j].option) : j \in DOMAIN Declarations }
    \cup { ArgparseDest(argv[i]) : i \in DOMAIN argv }

\* kw is no underscored global key and no f"{id}_{underscored key}"
Unmatched(kw) ==
    /\ \A i \in DOMAIN args : Underscored(args[i]) # kw
    /\ \A i \in DOMAIN elements : \A j \in DOMAIN elements[i].args :
           elements[i].id \o << "_" >> \o Underscored(elements[i].args[j]) # kw

\* the values the boundary may hold for kw
ValuesFor(kw) ==
    { ValueOf(argv[i]) : i \in { n \in DOMAIN argv : ArgparseDest(argv[n]) = kw } }
    \cup { DefaultOf(Declarations[j].option) :
             j \in { n \in DOMAIN Declarations :
                       ArgparseDest(Declarations[n].option) = kw } }

\* C18: a Builder whose declarations collide never has its arguments
\* parsed, so the value of the shared boundary key is never stored for just
\* one of the colliding declarations.
C18_CollisionsRejected ==
    Collides => ~(phase = "ARGUMENTS_PARSED" /\ error = "none")
(* parse_args called on a Builder that holds the declared arguments and    *)
(* Elements, with a command line of at most one option: a declared one, or *)
(* --x, which none of the declared options begins with.                    *)

InitParseArgs ==
    /\ passes_fb = FALSE
    /\ ctor = EmptyFn
    /\ args \in KeyLists(GlobalKeys)
    /\ elements \in { l \in ElementLists : ~HasDuplicateIds(l) }
    /\ argv \in { <<>>, << << "-", "-" >> \o Str_x >> }
                \cup { << DeclaredOptions(args, elements)[j].option >> :
                         j \in DOMAIN DeclaredOptions(args, elements) }
    /\ env = EmptyFn
    /\ phase = "CONSTRUCTED"
    /\ params = EmptyFn
    /\ data = {}
    /\ enabled = EmptyFn
    /\ axes = EmptyFn
    /\ attrs = EmptyFn
    /\ readLog = <<>>
    /\ plotLog = <<>>
    /\ orderLog = <<>>
    /\ linkageLog = <<>>
    /\ agg = EmptyFn
    /\ error = "none"

NextParseArgs == parse_command_line

SpecParseArgs == InitParseArgs /\ [][NextParseArgs]_vars

----------------------------------------------------------------------------
(* The read and plot steps called as the functions they are: read_f(self,   *)
(* fb, ...) and plot_f(self, fb) of an Element object that carries what     *)
(* FigureElement.__init__ assigns, on a Builder object fb that holds the    *)
(* Elements and the axes.  A caller calls the read steps in declaration     *)
(* order, any of them left out, then the plot steps likewise, and stops at  *)
(* the first call that raises; it may call set_order on an axis between     *)
(* the read steps.  The keyword arguments are those of the signatures.      *)
(* readLog and plotLog hold the calls: the arguments, the files the paths   *)
(* led to, the axes before and after, and what the call raised.             *)

\* how many set_order calls the caller makes of its own
MaxCallerCalls == 1

\* the keyword arguments of AxisAnnot.read_f
AxisAnnot_kwargs(axis, csv, label_col, max_label_len, order) ==
    [ csv |-> csv, index_col |-> IndexColumn(axis), label_col |-> label_col,
      max_label_len |-> max_label_len, order |-> order ]

\* the keyword arguments of HeatmapElement.read_f
HeatmapElement_kwargs(csv) ==
    [ csv |-> csv, gene_col |-> "sseqid", genome_col |-> "genome",
      val_col |-> "pident", colorscale |-> "blues" ]

\* the objects before any call
StepObjects(els) ==
    /\ passes_fb = FALSE
    /\ ctor = EmptyFn
    /\ args = <<>>
    /\ elements = els
    /\ argv = EmptyFn
    /\ phase = "NEW"
    /\ params = EmptyFn
    /\ data = {}
    /\ enabled = [ id \in { els[i].id : i \in DOMAIN els } |-> TRUE ]
    /\ axes = [ a \in AxisNames |-> NewAxis ]
    /\ attrs = [ id \in { els[i].id : i \in DOMAIN els } |->
                   FigureElementAttrs ]
    /\ readLog = <<>>
    /\ plotLog = <<>>
    /\ orderLog = <<>>
    /\ linkageLog = <<>>
    /\ agg = EmptyFn
    /\ error = "none"

\* the place in the declaration of the last Element a call of log was made
\* on, 0 when there is none
LastCalled(log) ==
    LET places == { i \in DOMAIN elements :
                      \E k \in DOMAIN log : log[k].id = elements[i].id }
    IN  IF places = {} THEN 0
        ELSE CHOOSE m \in places : \A n \in places : n <= m

ReadCallable(i) ==
    /\ error = "none"
    /\ plotLog = <<>>
    /\ LastCalled(readLog) < i

PlotCallable(i) ==
    /\ error = "none"
    /\ LastCalled(plotLog) < i

\* a call that leaves the state r
ReadCall(id, kind, kw, files, r) ==
    /\ readLog' = Append(readLog, [ id |-> id, kind |-> kind, kw |-> kw,
                                    files |-> files, before |-> axes,
                                    after |-> r.axes, error |-> r.error ])
    /\ axes' = r.axes
    /\ enabled' = r.enabled
    /\ attrs' = r.attrs
    /\ orderLog' = r.orderLog
    /\ linkageLog' = r.linkageLog
    /\ error' = r.error
    /\ UNCHANGED << passes_fb, ctor, args, elements, argv, env, phase, params,
                    data, plotLog, agg >>

PlotCall(e, r) ==
    /\ plotLog' = Append(plotLog, [ id |-> e.id, kind |-> e.kind,
                                    before |-> axes, after |-> r.axes,
                                    ticks |-> TicksOf(e.kind, r),
                                    error |-> r.error ])
    /\ axes' = r.axes
    /\ enabled' = r.enabled
    /\ attrs' = r.attrs
    /\ orderLog' = r.orderLog
    /\ error' = r.error
    /\ UNCHANGED << passes_fb, ctor, args, elements, argv, env, phase, params,
                    data, readLog, linkageLog, agg >>

call_AxisAnnot_read_f ==
    \E i \in DOMAIN elements :
        /\ elements[i].kind = "AxisAnnot"
        /\ ReadCallable(i)
        /\ LET e == elements[i]
           IN  \E kw \in env.kwargs[e.id] :
               \E table \in FilesAt(kw.csv, env.tables[e.axis_label], NoTable) :
               \E listing \in FilesAt(IF kw.csv = None THEN None ELSE kw.order,
                                       env.orders[e.axis_label], NoListing) :
                   ReadCall(e.id, e.kind, kw,
                            [ table |-> table, listing |-> listing ],
                            AxisAnnot_read_f(Cur, e, kw, table, listing))

call_GenomeTree_read_f ==
    \E i \in DOMAIN elements :
        /\ elements[i].kind = "GenomeTree"
        /\ ReadCallable(i)
        /\ LET e == elements[i]
           IN  \E kw \in env.kwargs[e.id] :
               \E dm \in FilesAt(kw.distmat, env.distmats, NoDistmat) :
               \E tree \in TreesOver(axes["genome"], dm) :
                   ReadCall(e.id, e.kind, kw, [ dm |-> dm, tree |-> tree ],
                            GenomeTree_read_f(Cur, e, kw, dm, tree))

call_HeatmapElement_read_f ==
    \E i \in DOMAIN elements :
        /\ elements[i].kind = "HeatmapElement"
        /\ ReadCallable(i)
        /\ LET e == elements[i]
           IN  \E kw \in env.kwargs[e.id] :
               \E f \in FilesAt(kw.csv, env.heatmaps, NoHeatmap) :
                   ReadCall(e.id, e.kind, kw, [ f |-> f ],
                            HeatmapElement_read_f(Cur, e, kw, f))

call_HeatmapColorbarElement_read_f ==
    \E i \in DOMAIN elements :
        /\ elements[i].kind = "HeatmapColorbarElement"
        /\ ReadCallable(i)
        /\ ReadCall(elements[i].id, elements[i].kind, EmptyFn, EmptyFn,
                    HeatmapColorbarElement_read_f(Cur, elements[i]))

\* the caller's own calls so far
CallerCalls == { k \in DOMAIN readLog : readLog[k].id = "caller" }

\* fb.axis(a).set_order(sequence), called from outside the Elements
call_Axis_set_order ==
    /\ error = "none"
    /\ plotLog = <<>>
    /\ Cardinality(CallerCalls) < MaxCallerCalls
    /\ \E a \in AxisNames : \E sequence \in env.sequences[a] :
           ReadCall("caller", "Axis.set_order",
                    [ axis |-> a, sequence |-> sequence ], EmptyFn,
                    OfferOrder(Cur, "caller", a, sequence, FALSE))

call_AxisAnnot_plot_f ==
    \E i \in DOMAIN elements :
        /\ elements[i].kind = "AxisAnnot"
        /\ PlotCallable(i)
        /\ PlotCall(elements[i], AxisAnnot_plot_f(Cur, elements[i]))

call_GenomeTree_plot_f ==
    \E i \in DOMAIN elements :
        /\ elements[i].kind = "GenomeTree"
        /\ PlotCallable(i)
        /\ PlotCall(elements[i], GenomeTree_plot_f(Cur, elements[i]))

call_HeatmapElement_plot_f ==
    \E i \in DOMAIN elements :
        /\ elements[i].kind = "HeatmapElement"
        /\ PlotCallable(i)
        /\ PlotCall(elements[i], HeatmapElement_plot_f(Cur, elements[i]))

call_HeatmapColorbarElement_plot_f ==
    \E i \in DOMAIN elements :
        /\ elements[i].kind = "HeatmapColorbarElement"
        /\ PlotCallable(i)
        /\ PlotCall(elements[i], HeatmapColorbarElement_plot_f(Cur, elements[i]))

\* the calls of the read step of a kind of Element
ReadCalls(kind) == { c \in Range(readLog) : c.kind = kind }

\* the axis an annotation Element writes to
AxisOf(id) == ElementById(id).axis_label

----------------------------------------------------------------------------
(* The steps over the files of two genomes and two genes.  Either the      *)
(* annotation of the genomes and the distance matrix are any files and the *)
(* genes and the heatmap well-formed, or the heatmap file is any and the   *)
(* others well-formed.                                                     *)

AnnotCalls(axis) ==
    { AxisAnnot_kwargs(axis, None, None, DefaultMaxLabelLen, None),
      AxisAnnot_kwargs(axis, Given, None, DefaultMaxLabelLen, None),
      AxisAnnot_kwargs(axis, Given, None, DefaultMaxLabelLen, Given) }

TreeEnv ==
    [ tables |-> [ a \in AxisNames |->
                     IF a = "genome" THEN TablesOfDistinct(a, GenomeIds)
                     ELSE { Table(a, SortedSeq(GeneIds)) } ],
      orders |-> [ a \in AxisNames |->
                     IF a = "genome" THEN ListingsOfDistinct(GenomeIds)
                     ELSE { Listing(Reversed(SortedSeq(GeneIds))) } ],
      distmats |-> Distmats(GenomeIds),
      heatmaps |-> { f \in Heatmaps(GenomeIds, GeneIds) :
                       f.cells = GenomeIds \X GeneIds /\ ~f.dup },
      kwargs |-> [ id \in ElementIds |->
                     CASE id = "genomeAnnot" -> AnnotCalls("genome")
                       [] id = "geneAnnot" ->
                            { AxisAnnot_kwargs("gene", Given, None,
                                               DefaultMaxLabelLen, None) }
                       [] id = "genomeTree" ->
                            { [ distmat |-> None ], [ distmat |-> Given ] }
                       [] id = "genomeHeatmap" -> { HeatmapElement_kwargs(Given) }
                       [] OTHER -> {} ],
      sequences |-> [ a \in AxisNames |->
                        IF a = "genome" THEN DupFreeSeqs(GenomeIds) ELSE {} ] ]

HeatmapEnv ==
    [ tables |-> [ a \in AxisNames |->
                     { Table(a, SortedSeq(IdsOf(a))), Table(a, << 1 >>) } ],
      orders |-> [ a \in AxisNames |->
                     { Listing(Reversed(SortedSeq(IdsOf(a)))) } ],
      distmats |-> { dm \in Distmats(GenomeIds) :
                       dm.index = GenomeIds /\ ~dm.dup },
      heatmaps |-> Heatmaps(GenomeIds, GeneIds),
      kwargs |-> [ id \in ElementIds |->
                     CASE id = "genomeAnnot" -> AnnotCalls("genome") 
                       [] id = "geneAnnot" -> AnnotCalls("gene")
                       [] id = "genomeTree" -> { [ distmat |-> Given ] }
                       [] id = "genomeHeatmap" ->
                            { HeatmapElement_kwargs(None),
                              HeatmapElement_kwargs(Given) }
                       [] OTHER -> {} ],
      sequences |-> [ a \in AxisNames |-> {} ] ]

InitSteps ==
    /\ StepObjects(Elements)
    /\ env \in { TreeEnv, HeatmapEnv }

NextSteps ==
    \/ call_AxisAnnot_read_f
    \/ call_GenomeTree_read_f
    \/ call_HeatmapElement_read_f
    \/ call_HeatmapColorbarElement_read_f
    \/ call_Axis_set_order
    \/ call_AxisAnnot_plot_f
    \/ call_GenomeTree_plot_f
    \/ call_HeatmapElement_plot_f
    \/ call_HeatmapColorbarElement_plot_f

SpecSteps == InitSteps /\ [][NextSteps]_vars

FixConflict(i, j) ==
    /\ orderLog[i].fixing /\ orderLog[j].fixing
    /\ DeclIndex(orderLog[i].elem) < DeclIndex(orderLog[j].elem)
    /\ orderLog[i].axis = orderLog[j].axis
    /\ orderLog[i].offered # orderLog[j].offered

NoPathCalls ==
    { c \in Range(readLog) :
        \/ c.kind \in {"AxisAnnot", "HeatmapElement"} /\ c.kw.csv = None
        \/ c.kind = "GenomeTree" /\ c.kw.distmat = None }

\* C11: a heatmap read step called without an input path leaves the heatmap
\* disabled, and the colorbar's read step called after it leaves the
\* colorbar disabled.
C11_ColorbarFollowsHeatmap ==
    \A c \in NoPathCalls :
        c.kind = "HeatmapElement" =>
            /\ ~enabled[c.id]
            /\ \A d \in ReadCalls("HeatmapColorbarElement") : ~enabled[d.id]

\* C13: a read step of an annotation, tree or heatmap Element that is called
\* without its input path returns without raising and leaves the Element
\* disabled.
C13_MissingInputDisables ==
    \A c \in NoPathCalls : c.error = "none" /\ ~enabled[c.id]

\* the set_order calls the tree made that the axis turned down
TreeOffersRejected ==
    { i \in TreeOffers : orderLog[i].rejected }

HeatmapCalls == { i \in DOMAIN linkageLog : linkageLog[i].elem = "genomeHeatmap" }

HeatmapCallsFor(log, a) ==
    { i \in DOMAIN log : log[i].elem = "genomeHeatmap" /\ log[i].axis = a }

FirstOrderCalls ==
    { c \in Range(readLog) :
        \/ /\ c.kind = "GenomeTree"
           /\ c.kw.distmat # None
           /\ ~c.before["genome"].exists
        \/ /\ c.kind = "HeatmapElement"
           /\ c.kw.csv # None
           /\ \E a \in AxisNames : ~c.before[a].exists }

\* the inputs are well-formed: a matrix of two genomes or more, each once,
\* and a table with its columns and two or more genomes and genes, no cell
\* twice
WellFormed(c) ==
    IF c.kind = "GenomeTree"
    THEN c.files.dm.found /\ ~c.files.dm.dup /\ c.files.tree.ok
    ELSE /\ c.files.f.found /\ ~c.files.f.dup
         /\ c.files.f.columns = HeatmapColumns
         /\ \A a \in AxisNames :
               Cardinality({ CellId(cell, a) : cell \in c.files.f.cells }) >= 2

LabelOrId(a, id) ==
    IF id \in DOMAIN a.label_of THEN a.label_of[id] ELSE IdText(id)

\* the plot steps that got to format_axis: those of the tree and of the
\* heatmap that raised nothing
DrawnCalls ==
    { c \in Range(plotLog) :
        c.kind \in {"GenomeTree", "HeatmapElement"} /\ c.error = "none" }

----------------------------------------------------------------------------
(* The scenario of five genomes: the annotation table lists them in the    *)
(* order of ScenarioSeries, the distance matrix lacks one of them, and the *)
(* caller offers orders of all five.                                       *)

ScenarioSeries == << 3, 1, 5, 2, 4 >>

\* s, begun at its n-th entry
Rotation(s, n) == [ i \in DOMAIN s |-> s[((i + n - 2) % Len(s)) + 1] ]

\* the orders the caller offers: the series and its reverse, begun anywhere
ScenarioSequences ==
    { Rotation(ScenarioSeries, n) : n \in DOMAIN ScenarioSeries }
    \cup { Rotation(Reversed(ScenarioSeries), n) : n \in DOMAIN ScenarioSeries }

ScenarioEnv ==
    [ tables |-> [ a \in AxisNames |->
                     IF a = "genome" THEN { Table(a, ScenarioSeries) } ELSE {} ],
      orders |-> [ a \in AxisNames |-> {} ],
      distmats |-> { [ found |-> TRUE, index |-> Range(ScenarioSeries) \ {x},
                       dup |-> FALSE ] : x \in Range(ScenarioSeries) },
      heatmaps |-> {},
      kwargs |-> [ id \in ElementIds |->
                     CASE id = "genomeAnnot" ->
                            { AxisAnnot_kwargs("genome", Given, None,
                                               DefaultMaxLabelLen, None) }
                       [] id = "genomeTree" -> { [ distmat |-> Given ] }
                       [] OTHER -> {} ],
      sequences |-> [ a \in AxisNames |->
                        IF a = "genome" THEN ScenarioSequences ELSE {} ] ]

InitScenario ==
    /\ StepObjects(Elements)
    /\ env = ScenarioEnv

NextScenario ==
    \/ call_AxisAnnot_read_f
    \/ call_GenomeTree_read_f
    \/ call_Axis_set_order

SpecScenario == InitScenario /\ [][NextScenario]_vars

----------------------------------------------------------------------------
(* AxisAnnot.read_f over any table and order file: rows and lines may hold *)
(* an ID twice.                                                            *)

AnnotEnv ==
    [ tables |-> [ a \in AxisNames |->
                     IF a = "genome" THEN Tables(a, GenomeIds)
                     ELSE { Table(a, SortedSeq(GeneIds)) } ],
      orders |-> [ a \in AxisNames |->
                     IF a = "genome" THEN Listings(GenomeIds) ELSE {} ],
      distmats |-> {},
      heatmaps |-> {},
      kwargs |-> [ id \in ElementIds |->
                     CASE id = "genomeAnnot" ->
                            { AxisAnnot_kwargs("genome", csv, label_col,
                                               max_label_len, order) :
                                csv \in { None, Given },
                                label_col \in { None, LabelColumn },
                                max_label_len \in { 3, DefaultMaxLabelLen },
                                order \in { None, Given } }
                       [] id = "geneAnnot" ->
                            { AxisAnnot_kwargs("gene", Given, label_col,
                                               max_label_len, None) :
                                label_col \in { None, LabelColumn },
                                max_label_len \in { 3, DefaultMaxLabelLen } }
                       [] OTHER -> {} ],
      sequences |-> [ a \in AxisNames |-> {} ] ]

InitAnnot ==
    /\ StepObjects(Elements)
    /\ env = AnnotEnv

NextAnnot == call_AxisAnnot_read_f

SpecAnnot == InitAnnot /\ [][NextAnnot]_vars

\* the text the table of call c holds for a row
AnnotatedText(c, row) ==
    IF c.kw.label_col = None THEN IdText(row) ELSE LabelText(row)

\* label is the first n characters of full, or all of it when it has fewer
IsCutTo(label, full, n) ==
    /\ Len(label) = IF n < Len(full) THEN n ELSE Len(full)
    /\ \A i \in DOMAIN label : label[i] = full[i]

C27_OrderUnique ==
    \A a \in AxisNames : IsDupFree(axes[a].order)

\* the annotation read steps called with a table
AnnotCallsWithTable == { c \in ReadCalls("AxisAnnot") : c.kw.csv # None }

AnnotTableFails(c) ==
    \/ ~c.files.table.found
    \/ c.kw.index_col \notin c.files.table.columns
    \/ /\ c.kw.label_col # None
       /\ c.kw.label_col \notin c.files.table.columns \ { c.kw.index_col }

\* the call c cannot put its table in the order of its order file
AnnotOrderFails(c) ==
    /\ c.kw.order # None
    /\ \/ ~c.files.listing.found
       \/ c.files.listing.lines = <<>>
       \/ ~(Range(c.files.listing.lines) \subseteq Range(c.files.table.index))
       \/ /\ Repeats(c.files.table.index)
          /\ c.files.listing.lines # c.files.table.index

----------------------------------------------------------------------------
(* order_by_linkage called twice with one matrix, the axes changing        *)
(* between the calls.                                                      *)

MaxResolverCalls == 2

\* the matrices of zeros and ones over some genomes, in any order of rows
ResolverMatrices ==
    { [ index |-> index, columns |-> SortedSeq(GeneIds), values |-> values ] :
        index \in DupFreeSeqs(GenomeIds),
        values \in [ GenomeIds -> [ GeneIds -> {0, 1} ] ] }

ResolverEnv ==
    [ tables |-> [ a \in AxisNames |->
                     IF a = "genome"
                     THEN { Table(a, t) : t \in Perms(GenomeIds) } ELSE {} ],
      orders |-> [ a \in AxisNames |-> {} ],
      distmats |-> {},
      heatmaps |-> {},
      kwargs |-> [ id \in ElementIds |->
                     CASE id = "genomeAnnot" ->
                            { AxisAnnot_kwargs("genome", Given, None,
                                               DefaultMaxLabelLen, None) }
                       [] OTHER -> {} ],
      sequences |-> [ a \in AxisNames |-> {} ],
      matrices |-> ResolverMatrices ]

\* order_by_linkage(df), called from outside the Elements: with any matrix
\* first, with the same again after that
call_order_by_linkage ==
    /\ error = "none"
    /\ Len(linkageLog) < MaxResolverCalls
    /\ \E df \in env.matrices :
           /\ linkageLog # <<>> => df = linkageLog[1].df
           /\ linkageLog' = CallLinkage(Cur, "caller", "genome", df).linkageLog
    /\ UNCHANGED << passes_fb, ctor, args, elements, argv, env, phase, params,
                    data, enabled, axes, attrs, readLog, plotLog, orderLog,
                    agg, error >>

InitResolver ==
    /\ StepObjects(Elements)
    /\ env = ResolverEnv

NextResolver ==
    \/ call_order_by_linkage
    \/ call_AxisAnnot_read_f

SpecResolver == InitResolver /\ [][NextResolver]_vars

----------------------------------------------------------------------------
(* read_data and make_plots over Builders of up to NumSteps Elements whose *)
(* steps are functions of the caller: a read step returns, returns having  *)
(* cleared the enabled flag of its Element, or raises; a plot step returns *)
(* or raises.                                                              *)

NumSteps == 3

StepIds == << "s1", "s2", "s3", "s4", "s5" >>

StepElements == [ i \in 1..NumSteps |-> [ id |-> StepIds[i], kind |-> "function" ] ]

\* what the read step of id raises
ReadErrorOf(id) ==
    CASE id = "global" -> "read_f of global raised"
      [] id = "s1" -> "read_f of s1 raised"
      [] id = "s2" -> "read_f of s2 raised"
      [] id = "s3" -> "read_f of s3 raised"
      [] id = "s4" -> "read_f of s4 raised"
      [] OTHER -> "read_f of s5 raised"

\* what the plot step of id raises
PlotErrorOf(id) ==
    CASE id = "s1" -> "plot_f of s1 raised"
      [] id = "s2" -> "plot_f of s2 raised"
      [] id = "s3" -> "plot_f of s3 raised"
      [] id = "s4" -> "plot_f of s4 raised"
      [] OTHER -> "plot_f of s5 raised"

\* the state a read step of the caller leaves
StepRead(s, id, does) ==
    CASE does = "raises" -> Raise(s, ReadErrorOf(id))
      [] does = "disables" -> [ s EXCEPT !.enabled[id] = FALSE ]
      [] OTHER -> s

\* the state a plot step of the caller leaves
StepPlot(s, id, does) ==
    IF does = "raises" THEN Raise(s, PlotErrorOf(id)) ELSE s

\* read_f(**self.params[id]) of the Builder or of an Element
read_function ==
    /\ Reading
    /\ ReadBook(StepRead(Cur, ReadTarget, env.reads[ReadTarget]), TRUE)

\* element.plot_f(self.subplots, self.params[element.id],
\* self.data[element.id], self.params, self.data)
plot_function ==
    /\ Plotting
    /\ IF PlotLookupFails THEN PlotBook(Raise(Cur, "KeyError"), FALSE)
       ELSE PlotBook(StepPlot(Cur, PlotTarget, env.plots[PlotTarget]), TRUE)

\* parse_args has returned; read_data is called next
InitLoops ==
    /\ passes_fb = FALSE
    /\ ctor = EmptyFn
    /\ args = <<>>
    /\ elements \in { Prefix(StepElements, n) : n \in 1..NumSteps }
    /\ argv = EmptyFn
    /\ LET ids == { elements[i].id : i \in DOMAIN elements }
       IN  /\ env \in [ reads : { f \in [ ids \cup {"global"} ->
                                        {"returns", "disables", "raises"} ] :
                                    f["global"] # "disables" },
                        plots : [ ids -> {"returns", "raises"} ] ]
           /\ enabled = [ id \in ids |-> TRUE ]
           /\ attrs = [ id \in ids |-> FigureElementAttrs ]
    /\ phase = "ARGUMENTS_PARSED"
    /\ params = [ ns \in {"global"} |-> EmptyFn ]
    /\ data = {}
    /\ axes = [ a \in AxisNames |-> NewAxis ]
    /\ readLog = <<>>
    /\ plotLog = <<>>
    /\ orderLog = <<>>
    /\ linkageLog = <<>>
    /\ agg = EmptyFn
    /\ error = "none"

NextLoops ==
    \/ read_function
    \/ plot_function

SpecLoops == InitLoops /\ [][NextLoops]_vars

DeclaredBefore(n) == { elements[j].id : j \in 1..(n - 1) }

----------------------------------------------------------------------------
----------------------------------------------------------------------------
(* An Axis under any calls.  The IDs, the series and the sequences are     *)
(* any a caller may pass: keys may repeat in a series (a table is indexed  *)
(* by its first column as read) and IDs in a sequence (read_lines returns  *)
(* every line of an order file).  orderLog holds the call in progress,     *)
(* with the axis as it was when the call was made.                         *)

NumAxisIds == 3

MaxSeriesLen == 2

AxisIds == 1..NumAxisIds

AxisSequences == UNION { SeqsOfLen(AxisIds, n) : n \in 0..MaxSeriesLen }

\* a series gives every key the label of its writer
AxisSeries ==
    { [ i \in DOMAIN keys |-> << keys[i], LabelText(w) >> ] :
        keys \in AxisSequences, w \in {1, 2} }

TheAxis == axes["genome"]

AxisCall(op, series, sequence) ==
    << [ op |-> op, series |-> series, sequence |-> sequence,
         before |-> TheAxis ] >>

axis_set ==
    /\ orderLog = <<>>
    /\ \E series \in AxisSeries :
           /\ axes' = [ axes EXCEPT !["genome"] = AxisSet(@, series) ]
           /\ orderLog' = AxisCall("set", series, <<>>)
    /\ UNCHANGED << passes_fb, ctor, args, elements, argv, env, phase, params, data,
                    enabled, attrs, readLog, plotLog, linkageLog, agg, error >>

axis_set_order ==
    /\ orderLog = <<>>
    /\ \E sequence \in AxisSequences :
           /\ axes' = [ axes EXCEPT !["genome"] = AxisSetOrder(@, sequence) ]
           /\ error' = IF AxisSetOrderError(TheAxis, sequence)
                       THEN "set_order: not a sequence of known members"
                       ELSE "none"
           /\ orderLog' = AxisCall("set_order", <<>>, sequence)
    /\ UNCHANGED << passes_fb, ctor, args, elements, argv, env, phase, params, data,
                    enabled, attrs, readLog, plotLog, linkageLog, agg >>

axis_fix ==
    /\ orderLog = <<>>
    /\ axes' = [ axes EXCEPT !["genome"] = AxisFix(@) ]
    /\ orderLog' = AxisCall("fix", <<>>, <<>>)
    /\ UNCHANGED << passes_fb, ctor, args, elements, argv, env, phase, params, data,
                    enabled, attrs, readLog, plotLog, linkageLog, agg, error >>

\* the call returns, or its caller has caught what it raised
axis_return ==
    /\ orderLog # <<>>
    /\ orderLog' = <<>>
    /\ error' = "none"
    /\ UNCHANGED << passes_fb, ctor, args, elements, argv, env, phase, params, data,
                    enabled, axes, attrs, readLog, plotLog, linkageLog, agg >>

NoFiles ==
    [ tables |-> [ a \in AxisNames |-> {} ],
      orders |-> [ a \in AxisNames |-> {} ],
      distmats |-> {},
      heatmaps |-> {} ]

\* no Builder: the axes as Axis() leaves them
InitAxis ==
    /\ passes_fb = FALSE
    /\ ctor = GigMapCall(Elements)
    /\ args = <<>>
    /\ elements = <<>>
    /\ argv \in { av \in Argvs : \A id \in DOMAIN av : av[id] = EmptyFn }
    /\ env = NoFiles
    /\ phase = "NEW"
    /\ params = EmptyFn
    /\ data = {}
    /\ enabled = EmptyFn
    /\ axes = [ a \in AxisNames |-> NewAxis ]
    /\ attrs = EmptyFn
    /\ readLog = <<>>
    /\ plotLog = <<>>
    /\ orderLog = <<>>
    /\ linkageLog = <<>>
    /\ agg = EmptyFn
    /\ error = "none"

NextAxis ==
    \/ axis_set
    \/ axis_set_order
    \/ axis_fix
    \/ axis_return

SpecAxis == InitAxis /\ [][NextAxis]_vars

\* the calls of operation op in progress
AxisCalls(op) == { c \in Range(orderLog) : c.op = op }

\* C24: a set_order call on an unfixed axis, existing or not, with a
\* sequence that holds an ID the axis does not know raises, and the order,
\* the labels and is_fixed are as they were before the call.
C24_UnknownMemberRejected ==
    \A c \in AxisCalls("set_order") :
        ( /\ ~c.before.is_fixed
          /\ ~(Range(c.sequence) \subseteq member_set(c.before)) ) =>
            /\ error # "none"
            /\ TheAxis.order = c.before.order
            /\ TheAxis.label_of = c.before.label_of
            /\ TheAxis.is_fixed = c.before.is_fixed

\* a sequence of a known and an unknown ID was offered to an unfixed axis
\* with an order and labels
C24_Witness ==
    \E c \in AxisCalls("set_order") :
        /\ c.before.exists /\ ~c.before.is_fixed
        /\ c.before.order # <<>>
        /\ DOMAIN c.before.label_of # {}
        /\ Range(c.sequence) \cap member_set(c.before) # {}
        /\ Range(c.sequence) \ member_set(c.before) # {}
        /\ error # "none"

\* C25: a set_order call on an existing, unfixed axis with a sequence of
\* known members, each once, makes that sequence the order, whatever the
\* order was, and leaves the labels as they were and the axis unfixed, so
\* that a later call may still set another order, here the reverse, and fix
\* it.
C25_SuggestionReplacesOrder ==
    \A c \in AxisCalls("set_order") :
        ( /\ c.before.exists
          /\ ~c.before.is_fixed
          /\ ~Repeats(c.sequence)
          /\ Range(c.sequence) \subseteq member_set(c.before) ) =>
            /\ error = "none"
            /\ TheAxis.order = c.sequence
            /\ TheAxis.label_of = c.before.label_of
            /\ ~TheAxis.is_fixed
            /\ ~AxisSetOrderRejected(TheAxis, Reversed(c.sequence))
            /\ AxisFix(AxisSetOrder(TheAxis, Reversed(c.sequence))).order
                   = Reversed(c.sequence)
            /\ AxisFix(AxisSetOrder(TheAxis, Reversed(c.sequence))).is_fixed

\* an order of three was replaced by two of its members, in another order
C25_Witness ==
    \E c \in AxisCalls("set_order") :
        /\ c.before.exists /\ ~c.before.is_fixed
        /\ Len(c.before.order) = 3
        /\ Len(c.sequence) = 2
        /\ Range(c.sequence) \subseteq Range(c.before.order)
        /\ c.sequence # SubSeq(c.before.order, 1, 2)
        /\ DOMAIN c.before.label_of # {}
        /\ TheAxis.order = c.sequence

\* the place of the first row of the series with key k
FirstRow(keys, k) ==
    CHOOSE i \in DOMAIN keys :
        keys[i] = k /\ \A j \in DOMAIN keys : keys[j] = k => i <= j

\* C26: a set call on an existing axis leaves the order it found as the
\* beginning of the new order, followed by the keys of the series that were
\* not known, each once and in the order of the series; every key of the
\* series has the label the series gives it and every other ID the label it
\* had; is_fixed is as it was.
C26_SetExtends ==
    \A c \in AxisCalls("set") :
        c.before.exists =>
            LET keys == SeriesKeys(c.series)
                old == Len(c.before.order)
                added == SubSeq(TheAxis.order, old + 1, Len(TheAxis.order))
            IN  /\ IsPrefixOf(c.before.order, TheAxis.order)
                /\ Range(added) = Range(keys) \ member_set(c.before)
                /\ IsDupFree(added)
                /\ \A i, j \in DOMAIN added :
                      i < j => FirstRow(keys, added[i]) < FirstRow(keys, added[j])
                /\ DOMAIN TheAxis.label_of
                       = DOMAIN c.before.label_of \cup Range(keys)
                /\ \A k \in Range(keys) :
                      TheAxis.label_of[k] = SeriesValue(c.series, k)
                /\ \A k \in DOMAIN c.before.label_of \ Range(keys) :
                      TheAxis.label_of[k] = c.before.label_of[k]
                /\ TheAxis.is_fixed = c.before.is_fixed

\* a series of a new ID followed by the second of two known IDs, with
\* another label than it had, was set on a fixed axis
C26_Witness ==
    \E c \in AxisCalls("set") :
        /\ c.before.exists /\ c.before.is_fixed
        /\ Len(c.before.order) = 2
        /\ Len(c.series) = 2
        /\ c.series[1][1] \notin member_set(c.before)
        /\ c.series[2][1] = c.before.order[2]
        /\ c.series[2][1] \in DOMAIN c.before.label_of
        /\ c.before.label_of[c.series[2][1]] # c.series[2][2]
        /\ Len(TheAxis.order) = 3

----------------------------------------------------------------------------
(* aggregate_results.py: the table of distances written in chunks.  A row  *)
(* of the table is its number in the table; agg is the state of the        *)
(* script at the loop: pc the statement it is at, dists and dists_keys the *)
(* script's variables, store the keys set in the database, writes the keys *)
(* of the chunks in the order r.set was called with them.                  *)

MaxDistRows == 5

MaxChunkRows == 3

RECURSIVE Decimal(_)
\* the decimal digits of k, as character codes
Decimal(k) ==
    IF k < 10 THEN << 48 + k >>
    ELSE Decimal(k \div 10) \o << 48 + (k % 10) >>

\* f"distances_{len(dists_keys)}"
DistancesKey(k) ==
    << 100, 105, 115, 116, 97, 110, 99, 101, 115, 95 >> \o Decimal(k)

\* s[start:stop] of a Python sequence, positions from 0, negative ones
\* counted from the end
Slice(s, start, stop) ==
    LET Pos(i) == IF i < 0 THEN (IF Len(s) + i < 0 THEN 0 ELSE Len(s) + i)
                  ELSE IF i > Len(s) THEN Len(s) ELSE i
    IN  SubSeq(s, Pos(start) + 1, Pos(stop))

\* variant: the chunk is all the rows that are left
chunk_head_whole(dists, n) == Slice(dists, 0, Len(dists))

\* dists.iloc[:min(dists.shape[0], args.dists_n_rows)]
chunk_head(dists, n) ==
    Slice(dists, 0, IF Len(dists) < n THEN Len(dists) ELSE n)

\* variant: the row after the chunk is dropped with it
chunk_rest_skipping(dists, n) == Slice(dists, n + 1, Len(dists))

\* dists.iloc[args.dists_n_rows:]
chunk_rest(dists, n) == Slice(dists, n, Len(dists))

AggAt(pc) == agg # EmptyFn /\ agg.pc = pc

AggUnchanged ==
    UNCHANGED << passes_fb, ctor, args, elements, argv, env, phase, params, data,
                 enabled, axes, attrs, readLog, plotLog, orderLog,
                 linkageLog, error >>

\* The passes of the loop that are followed: one more than the largest
\* table has rows.  A run that would enter a further pass is followed no
\* further.
MaxPasses == MaxDistRows + 1

\* while dists.shape[0] > 0
chunk_while ==
    /\ AggAt("while")
    /\ Len(agg.dists) > 0 => Len(agg.dists_keys) < MaxPasses
    /\ agg' = [ agg EXCEPT !.pc = IF Len(agg.dists) > 0 THEN "set" ELSE "keys" ]
    /\ AggUnchanged

\* r.set(f"distances_{len(dists_keys)}", dists.iloc[:min(...)])
chunk_set ==
    /\ AggAt("set")
    /\ LET key == DistancesKey(Len(agg.dists_keys))
           rows == chunk_head(agg.dists, agg.dists_n_rows)
       IN  agg' = [ agg EXCEPT
                      !.pc = "append",
                      !.store = [ k \in DOMAIN @ \cup {key} |->
                                    IF k = key THEN rows ELSE @[k] ],
                      !.writes = Append(@, key) ]
    /\ AggUnchanged

\* dists_keys.append(f"distances_{len(dists_keys)}")
chunk_append ==
    /\ AggAt("append")
    /\ agg' = [ agg EXCEPT !.pc = "if",
                           !.dists_keys = Append(@, DistancesKey(Len(@))) ]
    /\ AggUnchanged

\* if dists.shape[0] <= args.dists_n_rows: break
\* else: dists = dists.iloc[args.dists_n_rows:]
chunk_if ==
    /\ AggAt("if")
    /\ agg' = IF Len(agg.dists) <= agg.dists_n_rows
              THEN [ agg EXCEPT !.pc = "keys" ]
              ELSE [ agg EXCEPT !.pc = "while",
                                !.dists = chunk_rest(@, agg.dists_n_rows) ]
    /\ AggUnchanged

\* r.set("distances_keys", dists_keys)
chunk_keys ==
    /\ AggAt("keys")
    /\ agg' = [ agg EXCEPT !.pc = "done",
                           !.distances_keys = agg.dists_keys ]
    /\ AggUnchanged

\* a table of N >= 0 rows and --dists-n-rows n >= 1
InitChunks ==
    /\ passes_fb = FALSE
    /\ ctor = GigMapCall(Elements)
    /\ args = <<>>
    /\ elements = <<>>
    /\ argv \in { av \in Argvs : \A id \in DOMAIN av : av[id] = EmptyFn }
    /\ env = NoFiles
    /\ phase = "NEW"
    /\ params = EmptyFn
    /\ data = {}
    /\ enabled = EmptyFn
    /\ axes = EmptyFn
    /\ attrs = EmptyFn
    /\ readLog = <<>>
    /\ plotLog = <<>>
    /\ orderLog = <<>>
    /\ linkageLog = <<>>
    /\ error = "none"
    /\ \E N \in 0..MaxDistRows : \E n \in 1..MaxChunkRows :
          agg = [ pc |-> "while",
                  original |-> [ i \in 1..N |-> i ],
                  dists |-> [ i \in 1..N |-> i ],
                  dists_n_rows |-> n,
                  dists_keys |-> <<>>,
                  store |-> EmptyFn,
                  writes |-> <<>>,
                  distances_keys |-> <<>> ]

NextChunks ==
    \/ chunk_while
    \/ chunk_set
    \/ chunk_append
    \/ chunk_if
    \/ chunk_keys

SpecChunks == InitChunks /\ [][NextChunks]_vars

RECURSIVE Concat(_)
\* the sequences of a sequence, one after the other
Concat(ss) == IF ss = <<>> THEN <<>> ELSE Head(ss) \o Concat(Tail(ss))

\* C23: when the script has set 'distances_keys', the list is the keys of
\* the chunks in the order they were written, each written once, and the
\* chunks stored under the keys of the list, read in list order, are the
\* rows of the table, each once and in the order of the table.
C23_ChunksReassemble ==
    AggAt("done") =>
        /\ agg.distances_keys = agg.writes
        /\ IsDupFree(agg.writes)
        /\ Range(agg.distances_keys) = DOMAIN agg.store
        /\ Concat([ i \in DOMAIN agg.distances_keys |->
                      agg.store[agg.distances_keys[i]] ]) = agg.original

\* a table was written as two or more chunks, the last one shorter than
\* the others
C23_Witness ==
    /\ AggAt("done")
    /\ Len(agg.distances_keys) >= 2
    /\ Len(agg.original) % agg.dists_n_rows # 0
    /\ Len(agg.store[agg.distances_keys[1]]) = agg.dists_n_rows

----------------------------------------------------------------------------
(* Construction with distinct ids *)

\* C31: a constructor call with a read_f that is a function and Elements of
\* pairwise distinct ids raises nothing, and the Builder it leaves holds the
\* Elements it was given, in the order given.
C31_DistinctIdsConstructed ==
    ( ~HasDuplicateIds(ctor.elements) /\ ctor.read_f = "function" ) =>
        /\ error = "none"
        /\ phase # "NEW" => elements = ctor.elements

----------------------------------------------------------------------------
(* The chunk loop under any --dists-n-rows: the option is an int, and      *)
(* argparse takes 0 and negative numbers as well.                          *)

ChunkSizes == (0 - MaxChunkRows)..MaxChunkRows

InitChunksAny ==
    /\ passes_fb = FALSE
    /\ ctor = GigMapCall(Elements)
    /\ args = <<>>
    /\ elements = <<>>
    /\ argv \in { av \in Argvs : \A id \in DOMAIN av : av[id] = EmptyFn }
    /\ env = NoFiles
    /\ phase = "NEW"
    /\ params = EmptyFn
    /\ data = {}
    /\ enabled = EmptyFn
    /\ axes = EmptyFn
    /\ attrs = EmptyFn
    /\ readLog = <<>>
    /\ plotLog = <<>>
    /\ orderLog = <<>>
    /\ linkageLog = <<>>
    /\ error = "none"
    /\ \E N \in 0..MaxDistRows : \E n \in ChunkSizes :
          agg = [ pc |-> "while",
                  original |-> [ i \in 1..N |-> i ],
                  dists |-> [ i \in 1..N |-> i ],
                  dists_n_rows |-> n,
                  dists_keys |-> <<>>,
                  store |-> EmptyFn,
                  writes |-> <<>>,
                  distances_keys |-> <<>> ]

\* the script runs on as long as it has a statement to run
SpecChunksFair ==
    InitChunksAny /\ [][NextChunks]_vars /\ WF_vars(NextChunks)

\* C38: the loop terminates, whatever the number of rows and the value of
\* --dists-n-rows: a pass that goes on to the while test again leaves fewer
\* rows than it found.  The test and the pass read nothing but the rows
\* left and --dists-n-rows, so a pass that leaves as many rows as it found
\* is followed by the same pass again, without end.
C38_ChunkLoopTerminates ==
    [][ ( AggAt("if") /\ agg'.pc = "while" ) =>
          Len(agg'.dists) < Len(agg.dists) ]_vars

----------------------------------------------------------------------------
(* The number, keys and sizes of the chunks *)

\* ceil(N / n) for N >= 0 and n >= 1
CeilDiv(N, n) == (N + n - 1) \div n

\* C39: for a table of N rows and --dists-n-rows n >= 1, when the script
\* has set 'distances_keys' it has written ceil(N/n) chunks, under the keys
\* distances_0 .. distances_{ceil(N/n)-1} in this order and each key once,
\* every chunk has at least one row and at most n, and for N = 0 nothing
\* was written and the list is empty.
C39_ChunkCount ==
    ( AggAt("done") /\ agg.dists_n_rows >= 1 ) =>
        LET k == CeilDiv(Len(agg.original), agg.dists_n_rows) IN
        /\ agg.writes = [ i \in 1..k |-> DistancesKey(i - 1) ]
        /\ agg.distances_keys = agg.writes
        /\ DOMAIN agg.store = { DistancesKey(i - 1) : i \in 1..k }
        /\ \A key \in DOMAIN agg.store :
              /\ Len(agg.store[key]) >= 1
              /\ Len(agg.store[key]) <= agg.dists_n_rows
        /\ Len(agg.original) = 0 => agg.distances_keys = <<>>

\* a table of a multiple of n rows was written as two or more chunks
C39_Witness ==
    /\ AggAt("done")
    /\ agg.dists_n_rows >= 2
    /\ Len(agg.original) % agg.dists_n_rows = 0
    /\ Len(agg.writes) >= 2
    /\ Len(agg.writes) = CeilDiv(Len(agg.original), agg.dists_n_rows)

----------------------------------------------------------------------------
(* The viewer (app.py): the callback that renders the heatmap display.     *)
(* A wide table is genome -> gene -> cell.  A cell of the alignment data   *)
(* is an alignment with its identity and coverage, or no alignment (NaN in *)
(* both tables).  A cell of the table to plot is a number, a bool left in  *)
(* place by replace(), or null.                                            *)

NoAlignment == [ present |-> FALSE, pident |-> 0, coverage |-> 0 ]

AlignmentCells ==
    { NoAlignment,
      [ present |-> TRUE, pident |-> 95, coverage |-> 50 ],
      [ present |-> TRUE, pident |-> 50, coverage |-> 95 ] }

Thresholds == {40, 90}

Null == [ kind |-> "null", value |-> 0 ]
Num(v) == [ kind |-> "num", value |-> v ]
Bool(b) == [ kind |-> "bool", value |-> IF b THEN 1 ELSE 0 ]

\* (data["alignments_pident"] >= min_pctid) &
\* (data["alignments_coverage"] >= min_cov); a comparison with NaN is False
get_mask(alignments, min_pctid, min_cov) ==
    [ g \in GenomeIds |-> [ x \in GeneIds |->
        /\ alignments[g][x].present
        /\ alignments[g][x].pident >= min_pctid
        /\ alignments[g][x].coverage >= min_cov ] ]

Text == [ kind |-> "text", value |-> 0 ]

\* the tables of alignments the viewer's data may hold
AlignmentKeys ==
    { "alignments_pident", "alignments_coverage", "alignments_description" }

\* a table of nulls, for a call that returned none
NoFrame == [ g \in GenomeIds |-> [ x \in GeneIds |-> Null ] ]

\* format_alignments_wide: the display value is one of the four; the mask
\* itself, or data[f"alignments_{display_value}"].where(mask) when data has
\* that key
format_alignments_wide(alignments, data_keys, min_pctid, min_cov, display_value) ==
    LET mask == get_mask(alignments, min_pctid, min_cov)
        data_key == "alignments_" \o display_value
        Cell(g, x) ==
            CASE display_value = "pident" -> Num(alignments[g][x].pident)
              [] display_value = "coverage" -> Num(alignments[g][x].coverage)
              [] OTHER -> Text
    IN  IF display_value \notin {"pident", "coverage", "description", "mask"}
        THEN [ error |-> "AssertionError", df |-> NoFrame ]
        ELSE IF display_value = "mask"
        THEN [ error |-> "none",
               df |-> [ g \in GenomeIds |-> [ x \in GeneIds |->
                          Bool(mask[g][x]) ] ] ]
        ELSE IF data_key \notin data_keys
        THEN [ error |-> "AssertionError", df |-> NoFrame ]
        ELSE [ error |-> "none",
               df |-> [ g \in GenomeIds |-> [ x \in GeneIds |->
                          IF mask[g][x] THEN Cell(g, x) ELSE Null ] ] ]

\* get_gene_annot_values: color-genes-by is a column of the gene
\* annotations, and numeric holds the values of that column that are
\* numbers, as to_numeric and dropna leave them
get_gene_annot_values(selections, columns, numeric) ==
    IF selections.color_genes_by \notin columns
    THEN [ error |-> "AssertionError", value_dict |-> EmptyFn ]
    ELSE IF DOMAIN numeric = {}
    THEN [ error |-> "Column " \o selections.color_genes_by
                         \o " contains no numeric values",
           value_dict |-> EmptyFn ]
    ELSE [ error |-> "none", value_dict |-> numeric ]

\* .replace(to_replace={gene_name: {True: gene_value, False: None} for
\* gene_name, gene_value in value_dict.items()}): the columns of the genes
\* of value_dict are rewritten, the other columns are left as they are
replace_by_annotation(df, value_dict) ==
    [ g \in GenomeIds |-> [ x \in GeneIds |->
        IF x \notin DOMAIN value_dict THEN df[g][x]
        ELSE IF df[g][x].value = 1 THEN Num(value_dict[x])
        ELSE Null ] ]

\* plot_df.loc[plot_df.notnull().any(axis=1)]: the rows that are kept
rows_with_values(df) ==
    { g \in GenomeIds : \E x \in GeneIds : df[g][x].kind # "null" }

\* the values of a column of the gene annotations that are numbers, by gene
ValueDicts ==
    UNION { [ xs -> {7} ] : xs \in SUBSET GeneIds }

\* the columns of the table of gene annotations
AnnotationColumns == { "annotation" }

\* color-genes-by: an alignment statistic, a column of the annotations, a
\* name that is neither, or nothing
ColorGenesBy == { "pident", "coverage", "annotation", "product", None }

ViewerAt(pc) == agg # EmptyFn /\ agg.pc = pc

\* plot_gig_map_heatmap(selections), up to the call of make_nj_tree
plot_gig_map_heatmap ==
    /\ ViewerAt("called")
    /\ LET sel == agg.selections
           wide(display_value) ==
               format_alignments_wide(agg.alignments, agg.data_keys,
                   sel.minimum_pctid, sel.minimum_coverage, display_value)
           values == get_gene_annot_values(sel, agg.columns, agg.numeric)
           plot_df ==
               IF sel.color_genes_by \in {"pident", "coverage"}
               THEN wide(sel.color_genes_by)
               ELSE IF values.error # "none"
               THEN [ error |-> values.error, df |-> NoFrame ]
               ELSE [ error |-> wide("mask").error,
                      df |-> replace_by_annotation(wide("mask").df,
                                                   values.value_dict) ]
           kept == rows_with_values(plot_df.df)
           text_df == wide("description")
       IN  IF plot_df.error # "none"
           THEN /\ error' = plot_df.error
                /\ agg' = [ agg EXCEPT !.pc = "raised" ]
           ELSE IF ~(Cardinality(kept) > 1)
           THEN /\ error' = "<=1 genome with alignments passing filter"
                /\ agg' = [ agg EXCEPT !.pc = "raised", !.plot_df = kept ]
           ELSE IF text_df.error # "none"
           THEN /\ error' = text_df.error
                /\ agg' = [ agg EXCEPT !.pc = "raised", !.plot_df = kept ]
           ELSE /\ error' = "none"
                /\ agg' = [ agg EXCEPT
                             !.pc = "returned",
                             !.plot_df = kept,
                             !.text_df = [ g \in kept |-> text_df.df[g] ],
                             !.tree_built = TRUE,
                             !.tree_genomes = kept ]
    /\ UNCHANGED << passes_fb, ctor, args, elements, argv, env, phase, params, data,
                    enabled, axes, attrs, readLog, plotLog, orderLog,
                    linkageLog >>

\* no Builder: the viewer's data and the selections of one call
InitViewer ==
    /\ passes_fb = FALSE
    /\ ctor = GigMapCall(Elements)
    /\ args = <<>>
    /\ elements = <<>>
    /\ argv \in { av \in Argvs : \A id \in DOMAIN av : av[id] = EmptyFn }
    /\ env = NoFiles
    /\ phase = "NEW"
    /\ params = EmptyFn
    /\ data = {}
    /\ enabled = EmptyFn
    /\ axes = EmptyFn
    /\ attrs = EmptyFn
    /\ readLog = <<>>
    /\ plotLog = <<>>
    /\ orderLog = <<>>
    /\ linkageLog = <<>>
    /\ error = "none"
    /\ \E alignments \in [ GenomeIds -> [ GeneIds -> AlignmentCells ] ] :
       \E p \in Thresholds : \E c \in Thresholds :
       \E by \in ColorGenesBy : \E vd \in ValueDicts :
       \E described \in BOOLEAN :
          /\ by \notin AnnotationColumns => DOMAIN vd = {}
          /\ agg = [ pc |-> "called",
                     alignments |-> alignments,
                     data_keys |-> IF described THEN AlignmentKeys
                                   ELSE AlignmentKeys
                                          \ { "alignments_description" },
                     columns |-> AnnotationColumns,
                     numeric |-> vd,
                     selections |-> [ minimum_pctid |-> p,
                                      minimum_coverage |-> c,
                                      color_genes_by |-> by ],
                     plot_df |-> {},
                     text_df |-> EmptyFn,
                     tree_built |-> FALSE,
                     tree_genomes |-> {} ]

NextViewer == plot_gig_map_heatmap

SpecViewer == InitViewer /\ [][NextViewer]_vars

\* the genomes with at least one alignment that passes both thresholds
GenomesPassing ==
    { g \in GenomeIds : \E x \in GeneIds :
        LET a == agg.alignments[g][x]
        IN  /\ a.present
            /\ a.pident >= agg.selections.minimum_pctid
            /\ a.coverage >= agg.selections.minimum_coverage }

\* C40: when the callback is over, it has raised and built no tree if fewer
\* than two genomes have an alignment passing the identity and coverage
\* thresholds; a tree it has built is over exactly the genomes that have
\* one; and a run that raised at the check built no tree.
C40_TreeOverPassingGenomes ==
    ( agg # EmptyFn /\ agg.pc # "called" ) =>
        /\ Cardinality(GenomesPassing) < 2 =>
              error # "none" /\ ~agg.tree_built
        /\ agg.tree_built => agg.tree_genomes = GenomesPassing
        /\ error # "none" => ~agg.tree_built

====
